---- MODULE Spec2Model ----
(***************************************************************************)
(* foilsigh: the content-addressable image store (lib/imageStore) and the  *)
(* placeholder resolver of the live preview (components/RevealPreview).    *)
(*                                                                         *)
(* Text is a sequence of one-character strings, so that the regular        *)
(* expressions, String.includes and split/join of the source are computed  *)
(* character by character.                                                 *)
(***************************************************************************)
EXTENDS Integers, Sequences, FiniteSets, TLC

(***************************************************************************)
(* Bounds of the model.                                                    *)
(***************************************************************************)
\* number of distinct image contents the user can import
NumBlobs == 2
\* number of store operations started in one behaviour
MaxOps == 2
\* number of resolution passes (renders of RevealPreview) in one behaviour
MaxPasses == 2
\* number of storage faults (rejected requests) in one behaviour
MaxFaults == 1
\* number of blocks in a document handed to markdownToSlides
MaxBlocks == 2
\* number of lines of a list block
MaxItems == 4
\* number of spaces a list line is indented by
MaxIndent == 4
\* render calls of the diagram dialog
MaxRenders == 3
\* page loads after the first one
MaxStarts == 2

(***************************************************************************)
(* Program constants.                                                      *)
(***************************************************************************)
\* hashHex.slice(0, 16) and the {16} of the resolver's pattern
IdHexLen == 16
\* a SHA-256 digest has 32 bytes
DigestLen == 32

(***************************************************************************)
(* Generic text helpers.                                                   *)
(***************************************************************************)
RECURSIVE Concat(_)
Concat(ss) == IF ss = <<>> THEN <<>> ELSE Head(ss) \o Concat(Tail(ss))

\* a value computed once and named: body(value)
Bind(value, body(_)) == body(value)

\* text.startsWith(pat, i) with a 1-based index
MatchAt(text, i, pat) ==
    /\ i >= 1
    /\ i + Len(pat) - 1 <= Len(text)
    /\ \A k \in 1..Len(pat) : text[i + k - 1] = pat[k]

\* the least index >= i where pat occurs in text, 0 when there is none
IndexOf(text, pat, i) ==
    Bind({j \in i..(Len(text) - Len(pat) + 1) : MatchAt(text, j, pat)},
         LAMBDA at : IF at = {} THEN 0 ELSE CHOOSE j \in at : \A k \in at : j <= k)

\* the indexes where pat occurs in text
Starts(text, pat) ==
    {j \in 1..(Len(text) - Len(pat) + 1) : text[j] = pat[1] /\ MatchAt(text, j, pat)}

\* how many of the occurrences at the indexes in at, each len long, a scan
\* from index i on meets when it resumes after each one
RECURSIVE CountFrom(_, _, _)
CountFrom(at, len, i) ==
    LET rest == {j \in at : j >= i}
        first == CHOOSE j \in rest : \A k \in rest : j <= k
    IN  IF rest = {} THEN 0 ELSE 1 + CountFrom(rest, len, first + len)

\* number of non-overlapping occurrences of pat in text
Occurrences(text, pat) == CountFrom(Starts(text, pat), Len(pat), 1)

HexDigits == <<"0", "1", "2", "3", "4", "5", "6", "7", "8", "9",
               "a", "b", "c", "d", "e", "f">>

\* the character class [a-f0-9]
IsHexChar(ch) == \E k \in 1..Len(HexDigits) : HexDigits[k] = ch

(***************************************************************************)
(* Image contents and data URLs.                                           *)
(***************************************************************************)
\* the bytes of the k-th image content: k bytes, so that sizes differ
BlobBytes(k) == [i \in 1..k |-> (k * 37 + i * 101) % 256]

BlobIdx == 1..NumBlobs

MimePng == <<"i", "m", "a", "g", "e", "/", "p", "n", "g">>
MimeJpeg == <<"i", "m", "a", "g", "e", "/", "j", "p", "e", "g">>

B64Alphabet == <<"A", "B", "C", "D", "E", "F", "G", "H", "I", "J", "K", "L", "M",
                 "N", "O", "P", "Q", "R", "S", "T", "U", "V", "W", "X", "Y", "Z",
                 "a", "b", "c", "d", "e", "f", "g", "h", "i", "j", "k", "l", "m",
                 "n", "o", "p", "q", "r", "s", "t", "u", "v", "w", "x", "y", "z",
                 "0", "1", "2", "3", "4", "5", "6", "7", "8", "9", "+", "/">>

B64Char(n) == B64Alphabet[n + 1]

B64Value(ch) == (CHOOSE k \in 1..Len(B64Alphabet) : B64Alphabet[k] = ch) - 1

\* base64 of a byte sequence, with "=" padding
RECURSIVE Base64Encode(_)
Base64Encode(bytes) ==
    IF bytes = <<>> THEN <<>>
    ELSE IF Len(bytes) = 1 THEN
        <<B64Char(bytes[1] \div 4), B64Char((bytes[1] % 4) * 16), "=", "=">>
    ELSE IF Len(bytes) = 2 THEN
        <<B64Char(bytes[1] \div 4),
          B64Char((bytes[1] % 4) * 16 + bytes[2] \div 16),
          B64Char((bytes[2] % 16) * 4), "=">>
    ELSE
        <<B64Char(bytes[1] \div 4),
          B64Char((bytes[1] % 4) * 16 + bytes[2] \div 16),
          B64Char((bytes[2] % 16) * 4 + bytes[3] \div 64),
          B64Char(bytes[3] % 64)>>
        \o Base64Encode(SubSeq(bytes, 4, Len(bytes)))

RECURSIVE Base64Decode(_)
Base64Decode(chars) ==
    IF Len(chars) < 4 THEN <<>>
    ELSE
        LET a == B64Value(chars[1])
            b == B64Value(chars[2])
            rest == SubSeq(chars, 5, Len(chars))
        IN  IF chars[3] = "=" THEN <<a * 4 + b \div 16>>
            ELSE IF chars[4] = "=" THEN
                <<a * 4 + b \div 16, (b % 16) * 16 + B64Value(chars[3]) \div 4>>
            ELSE
                <<a * 4 + b \div 16,
                  (b % 16) * 16 + B64Value(chars[3]) \div 4,
                  (B64Value(chars[3]) % 4) * 64 + B64Value(chars[4])>>
                \o Base64Decode(rest)

DataScheme == <<"d", "a", "t", "a", ":">>
Base64Mark == <<";", "b", "a", "s", "e", "6", "4", ",">>

\* FileReader.readAsDataURL(blob): "data:<type>;base64,<payload>"
ReadAsDataURL(blob) == DataScheme \o blob.type \o Base64Mark \o Base64Encode(blob.bytes)

\* (await fetch(dataUrl)).blob(): the media type and the decoded payload
FetchBlob(dataUrl) ==
    LET m == IndexOf(dataUrl, Base64Mark, 1)
    IN  [type |-> SubSeq(dataUrl, Len(DataScheme) + 1, m - 1),
         bytes |-> Base64Decode(SubSeq(dataUrl, m + Len(Base64Mark), Len(dataUrl)))]

\* blob.size
BlobSize(blob) == Len(blob.bytes)

\* the data URLs the import dialog hands to storeImage: every content as a
\* PNG, and the first content also as a JPEG (same bytes, another type)
PngUrl(k) == ReadAsDataURL([type |-> MimePng, bytes |-> BlobBytes(k)])
JpegUrl(k) == ReadAsDataURL([type |-> MimeJpeg, bytes |-> BlobBytes(k)])

DataUrls == {PngUrl(k) : k \in BlobIdx} \cup {JpegUrl(1)}

(***************************************************************************)
(* generateImageId.                                                        *)
(***************************************************************************)
RECURSIVE SumBytes(_)
SumBytes(bytes) == IF bytes = <<>> THEN 0 ELSE Head(bytes) + SumBytes(Tail(bytes))

\* crypto.subtle.digest('SHA-256', buffer): a deterministic stand-in that maps
\* the contents of the model to distinct 32-byte digests
Digest(bytes) ==
    [k \in 1..DigestLen |->
        (SumBytes(bytes) * (2 * k + 1) + Len(bytes) * k * k + 3 * k) % 256]

\* b.toString(16)
ToString16(b) ==
    IF b < 16 THEN <<HexDigits[b + 1]>>
    ELSE <<HexDigits[(b \div 16) + 1], HexDigits[(b % 16) + 1]>>

\* s.padStart(2, '0')
PadStart2(s) == IF Len(s) < 2 THEN <<"0">> \o s ELSE s

\* hashArray.map(b => b.toString(16).padStart(2, '0')).join('')
HashHex(hashArray) ==
    Concat([k \in 1..Len(hashArray) |-> PadStart2(ToString16(hashArray[k]))])

IdPrefix == <<"i", "m", "g", "-">>

\* an id that hashes the media type along with the bytes
generateTypedImageId(blob) ==
    IdPrefix \o SubSeq(HashHex(Digest(blob.bytes \o <<Len(blob.type)>>)), 1, IdHexLen)

\* an id cut to half the length: `img-${hashHex.slice(0, 8)}`
generateShortImageId(blob) ==
    IdPrefix \o SubSeq(HashHex(Digest(blob.bytes)), 1, IdHexLen \div 2)

\* `img-${hashHex.slice(0, 16)}`
generateImageId(blob) ==
    IdPrefix \o SubSeq(HashHex(Digest(blob.bytes)), 1, IdHexLen)

(***************************************************************************)
(* State.                                                                  *)
(***************************************************************************)
VARIABLES
    db,            \* object store 'images': a set of StoredImage records
    proc,          \* per caller: the store operation in flight and its position
    nops,          \* number of store operations started
    nfaults,       \* number of storage faults so far
    live,          \* history: [id, bytes] of every put not deleted since
    lastGC,        \* history: the last completed undisturbed cleanup
    slidesHtml,    \* RevealPreview: the memoised compiler output
    resolvedHtml,  \* RevealPreview: the state handed to the renderer
    passes,        \* RevealPreview: the resolveImages calls started so far
    appMarkdown,   \* App: the markdown state (the document text)
    listHtml,      \* markdownToSlides: the html of a slide after the list pass
    stage,         \* markdownToSlides: "source" before it has run, then
                   \* "compiled" (slidesHtml holds its result) or "listed"
                   \* (listHtml holds the result of its list pass)
    export,        \* exportWithInlinedImages: the call in flight or settled
    diagramCode,   \* DiagramModal: the code state
    renderIdRef,   \* DiagramModal: renderIdRef.current
    previewInner,  \* DiagramModal: previewRef.current.innerHTML
    diagramError,  \* DiagramModal: the error state
    renders,       \* DiagramModal: the render calls started so far
    themeConfig,   \* App: the themeConfig state
    localConfig,   \* ThemeSettings: the localConfig state
    isThemeSettingsOpen,  \* App: the isThemeSettingsOpen state
    storedMarkdown,  \* localStorage: the item under STORAGE_KEYS.markdown
    starts         \* the number of times the page has been loaded again

vars == <<db, proc, nops, nfaults, live, lastGC, slidesHtml, resolvedHtml, passes,
          appMarkdown, listHtml, stage, export, diagramCode, renderIdRef,
          previewInner, diagramError, renders, themeConfig, localConfig,
          isThemeSettingsOpen, storedMarkdown, starts>>

storeVars == <<db, proc, nops, nfaults, live, lastGC>>
previewVars == <<slidesHtml, resolvedHtml, passes>>
docVars == <<appMarkdown, storedMarkdown, listHtml, stage>>
diagramVars == <<diagramCode, renderIdRef, previewInner, diagramError, renders>>
themeVars == <<themeConfig, localConfig, isThemeSettingsOpen>>
uiVars == <<export, diagramVars, themeVars, starts>>

\* the independent callers of the store (two UI handlers running at once)
Callers == {"A", "B"}

Idle == [op |-> "idle"]

\* the outcomes the storage layer may give a request: success, or an error
\* (request.onerror, a rejected openDB, reader.onerror)
Outcomes == IF nfaults < MaxFaults THEN BOOLEAN ELSE {TRUE}

\* a step of caller c that ends in a storage fault counts as one
CountFault(c) == nfaults' = IF proc'[c].fault THEN nfaults + 1 ELSE nfaults

InFlight(c) == proc[c].op # "idle" /\ proc[c].pc # "done"

\* the callers are interchangeable, so "B" is taken to be the one that starts
\* its first operation second
CanStart(c) ==
    /\ ~InFlight(c)
    /\ nops < MaxOps
    /\ c = "B" => proc["A"].op # "idle"

\* a settled promise
Fulfilled(v) == [state |-> "fulfilled", value |-> v]
Rejected == [state |-> "rejected", value |-> "error"]
Null == "null"

\* REVEAL_THEMES, of which the model keeps the first three
ThemeIds == {"black", "white", "league"}

\* DEFAULT_THEME_CONFIG
DEFAULT_THEME_CONFIG ==
    [theme |-> "black", primaryColor |-> "#42affa",
     secondaryColor |-> "#ffffff", tertiaryColor |-> "#969696"]

\* no export has been asked for, the diagram dialog has not been opened, and
\* the theme is the default one
UiIdle ==
    /\ export = [pc |-> "idle"]
    /\ diagramCode = <<>>
    /\ renderIdRef = 0
    /\ previewInner = <<>>
    /\ diagramError = Null
    /\ renders = <<>>
    /\ themeConfig = DEFAULT_THEME_CONFIG
    /\ localConfig = DEFAULT_THEME_CONFIG
    /\ isThemeSettingsOpen = FALSE
    /\ starts = 0

(***************************************************************************)
(* The object store (keyPath 'id') and its requests.                       *)
(***************************************************************************)
\* the record storeImage writes; its createdAt field is left out, no code of
\* the repository reads it
StoredImage(id, blob) == [id |-> id, blob |-> blob, mimeType |-> blob.type]

\* store.add(image) in place of store.put(image): a ConstraintError when the
\* key exists
StoreAdd(store, image) ==
    IF \E r \in store : r.id = image.id
    THEN [ok |-> FALSE, store |-> store]
    ELSE [ok |-> TRUE, store |-> store \cup {image}]

\* a put that evicts every other record
StorePutEvicting(store, image) == [ok |-> TRUE, store |-> {image}]

\* store.put(image): replaces the record with the same key, never fails on one
StorePut(store, image) ==
    [ok |-> TRUE, store |-> {r \in store : r.id # image.id} \cup {image}]

\* a lookup under the wrong key
StoreGetWrongKey(store, id) == {r \in store : r.mimeType = id}

\* store.get(id): the record, or undefined
StoreGet(store, id) == {r \in store : r.id = id}

\* a delete that empties the object store
StoreClear(store, id) == {}

\* a delete that leaves the record in place
StoreDeleteNothing(store, id) == store

\* store.delete(id): succeeds whether or not the key exists
StoreDelete(store, id) == {r \in store : r.id # id}

\* order of two keys (strings compare by code unit; the prefix is common)
HexRank(ch) == CHOOSE k \in 1..Len(HexDigits) : HexDigits[k] = ch

RECURSIVE KeyLess(_, _)
KeyLess(a, b) ==
    IF a = <<>> \/ b = <<>> THEN a = <<>> /\ b # <<>>
    ELSE IF Head(a) = Head(b) THEN KeyLess(Tail(a), Tail(b))
    ELSE IF IsHexChar(Head(a)) /\ IsHexChar(Head(b))
         THEN HexRank(Head(a)) < HexRank(Head(b))
    ELSE FALSE

\* store.getAllKeys(): the keys in ascending order
StoreGetAllKeys(store) ==
    LET keys == {r.id : r \in store}
        n == Cardinality(keys)
    IN  CHOOSE s \in [1..n -> keys] :
            \A i, j \in 1..n : i < j => KeyLess(s[i], s[j])

\* images.reduce((sum, img) => sum + img.blob.size, 0) over store.getAll()
RECURSIVE StorageSize(_)
StorageSize(store) ==
    IF store = {} THEN 0
    ELSE LET r == CHOOSE x \in store : TRUE
         IN  BlobSize(r.blob) + StorageSize(store \ {r})

\* markdown.startsWith(id) in place of markdown.includes(id)
StartsWithId(markdown, id) == MatchAt(markdown, 1, id)

\* markdown.includes(id)
Includes(markdown, id) == IndexOf(markdown, id, 1) # 0

(***************************************************************************)
(* History bookkeeping shared by the mutating transactions.                *)
(***************************************************************************)
\* a committed mutation by caller c disturbs every cleanup in flight elsewhere
Disturb(c, p) ==
    [d \in Callers |->
        IF d # c /\ p[d].op = "cleanupUnusedImages" /\ p[d].pc = "delete"
        THEN [p[d] EXCEPT !.disturbed = TRUE]
        ELSE p[d]]

\* operation numbers of the storeImage calls in flight
PutsInFlight == {proc[d].n : d \in {e \in Callers :
                     proc[e].op = "storeImage" /\ proc[e].pc # "done"}}

(***************************************************************************)
(* storeImage(dataUrl)                                                     *)
(***************************************************************************)
StartPut(c, dataUrl) ==
    /\ CanStart(c)
    /\ proc' = [proc EXCEPT ![c] =
                   [op |-> "storeImage", pc |-> "hash", n |-> nops + 1,
                    dataUrl |-> dataUrl, peers |-> PutsInFlight]]
    /\ nops' = nops + 1
    /\ UNCHANGED <<db, nfaults, live, lastGC, previewVars, docVars, uiVars>>

\* fetch(dataUrl), response.blob(), generateImageId(blob)
PutHash(c) ==
    /\ proc[c].op = "storeImage" /\ proc[c].pc = "hash"
    /\ LET blob == FetchBlob(proc[c].dataUrl)
       IN  proc' = [proc EXCEPT ![c] =
                       [op |-> "storeImage", pc |-> "put", n |-> proc[c].n,
                        dataUrl |-> proc[c].dataUrl, peers |-> proc[c].peers,
                        blob |-> blob, id |-> generateImageId(blob)]]
    /\ UNCHANGED <<db, nops, nfaults, live, lastGC, previewVars, docVars, uiVars>>

\* openDB(), then the readwrite transaction with store.put(image)
PutTxn(c) ==
    /\ proc[c].op = "storeImage" /\ proc[c].pc = "put"
    /\ \E storageOk \in Outcomes :
        LET me == proc[c]
            req == StorePut(db, StoredImage(me.id, me.blob))
            done(res, store) ==
                [op |-> "storeImage", pc |-> "done", n |-> me.n,
                 dataUrl |-> me.dataUrl, peers |-> me.peers,
                 blob |-> me.blob, id |-> me.id, result |-> res,
                 fault |-> ~storageOk,
                 priorIds |-> {e.id : e \in {x \in live : x.bytes = me.blob.bytes}},
                 sizeBefore |-> StorageSize(db),
                 sizeAfter |-> StorageSize(store),
                 entries |-> Cardinality(StoreGet(store, me.id))]
        IN  IF storageOk /\ req.ok
            THEN /\ db' = req.store
                 /\ proc' = Disturb(c, [proc EXCEPT ![c] = done(Fulfilled(me.id), req.store)])
                 /\ live' = {e \in live : e.id # me.id}
                               \cup {[id |-> me.id, bytes |-> me.blob.bytes]}
                 /\ lastGC' = [lastGC EXCEPT !.valid = FALSE]
            ELSE /\ proc' = [proc EXCEPT ![c] = done(Rejected, db)]
                 /\ UNCHANGED <<db, live, lastGC>>
    /\ CountFault(c)
    /\ UNCHANGED <<nops, previewVars, docVars, uiVars>>

(***************************************************************************)
(* getImage(id)                                                            *)
(***************************************************************************)
StartGet(c, id) ==
    /\ CanStart(c)
    /\ proc' = [proc EXCEPT ![c] =
                   [op |-> "getImage", pc |-> "txn", n |-> nops + 1, id |-> id]]
    /\ nops' = nops + 1
    /\ UNCHANGED <<db, nfaults, live, lastGC, previewVars, docVars, uiVars>>

\* openDB() and the readonly transaction with store.get(id), up to the
\* request's onsuccess / onerror: a missing record resolves null at once, a
\* found one goes on to the FileReader
GetImageTxn(store, id, storageOk) ==
    LET found == StoreGet(store, id)
    IN  IF ~storageOk THEN [pc |-> "done", image |-> {}, result |-> Rejected]
        ELSE IF found = {} THEN [pc |-> "done", image |-> {}, result |-> Fulfilled(Null)]
        ELSE [pc |-> "read", image |-> found, result |-> Fulfilled(Null)]

\* a partial read: the data URL of the blob without its last byte
ReadTruncated(image, readerOk) ==
    LET blob == (CHOOSE r \in image : TRUE).blob
    IN  Fulfilled(ReadAsDataURL([type |-> blob.type,
                                 bytes |-> SubSeq(blob.bytes, 1, Len(blob.bytes) - 1)]))

\* reader.readAsDataURL(image.blob), reader.onload / reader.onerror
GetImageRead(image, readerOk) ==
    IF readerOk
    THEN Fulfilled(ReadAsDataURL((CHOOSE r \in image : TRUE).blob))
    ELSE Rejected

\* history: of every cleanup by another caller that is between two of its
\* deletes and has not been disturbed, the ids it listed and those of them it
\* has deleted
Sweeps(c) ==
    {[swept |-> {proc[d].allIds[j] : j \in {k \in 1..(proc[d].i - 1) :
                     ~Includes(proc[d].markdown, proc[d].allIds[k])}},
      listed |-> {proc[d].allIds[j] : j \in 1..Len(proc[d].allIds)}] :
        d \in {e \in Callers \ {c} :
                  /\ proc[e].op = "cleanupUnusedImages"
                  /\ proc[e].pc = "delete"
                  /\ ~proc[e].disturbed}}

GetTxn(c) ==
    /\ proc[c].op = "getImage" /\ proc[c].pc = "txn"
    /\ \E storageOk \in Outcomes :
        LET me == proc[c]
            got == GetImageTxn(db, me.id, storageOk)
        IN  proc' = [proc EXCEPT ![c] =
                [op |-> "getImage", pc |-> got.pc, n |-> me.n, id |-> me.id,
                 image |-> got.image, result |-> got.result,
                 fault |-> ~storageOk,
                 liveSeen |-> {e \in live : e.id = me.id},
                 sweeps |-> Sweeps(c)]]
    /\ CountFault(c)
    /\ UNCHANGED <<db, nops, live, lastGC, previewVars, docVars, uiVars>>

GetRead(c) ==
    /\ proc[c].op = "getImage" /\ proc[c].pc = "read"
    /\ \E readerOk \in Outcomes :
        proc' = [proc EXCEPT ![c].pc = "done",
                             ![c].fault = ~readerOk,
                             ![c].result = GetImageRead(proc[c].image, readerOk)]
    /\ CountFault(c)
    /\ UNCHANGED <<db, nops, live, lastGC, previewVars, docVars, uiVars>>

(***************************************************************************)
(* deleteImage(id)                                                         *)
(***************************************************************************)
StartDelete(c, id) ==
    /\ CanStart(c)
    /\ proc' = [proc EXCEPT ![c] =
                   [op |-> "deleteImage", pc |-> "txn", n |-> nops + 1, id |-> id]]
    /\ nops' = nops + 1
    /\ UNCHANGED <<db, nfaults, live, lastGC, previewVars, docVars, uiVars>>

\* openDB(), then the readwrite transaction with store.delete(id)
DeleteTxn(c) ==
    /\ proc[c].op = "deleteImage" /\ proc[c].pc = "txn"
    /\ \E storageOk \in Outcomes :
        LET me == proc[c]
            done(res) == [op |-> "deleteImage", pc |-> "done", n |-> me.n,
                          id |-> me.id, result |-> res, fault |-> ~storageOk,
                          before |-> db,
                          after |-> IF storageOk THEN StoreDelete(db, me.id) ELSE db]
        IN  IF storageOk
            THEN /\ db' = StoreDelete(db, me.id)
                 /\ proc' = Disturb(c, [proc EXCEPT ![c] = done(Fulfilled("undefined"))])
                 /\ live' = {e \in live : e.id # me.id}
                 /\ lastGC' = [lastGC EXCEPT !.valid = FALSE]
            ELSE /\ proc' = [proc EXCEPT ![c] = done(Rejected)]
                 /\ UNCHANGED <<db, live, lastGC>>
    /\ CountFault(c)
    /\ UNCHANGED <<nops, previewVars, docVars, uiVars>>


(***************************************************************************)
(* cleanupUnusedImages(markdown), with getAllImageIds and deleteImage      *)
(***************************************************************************)
StartGC(c, markdown) ==
    /\ CanStart(c)
    /\ proc' = [proc EXCEPT ![c] =
                   [op |-> "cleanupUnusedImages", pc |-> "list", n |-> nops + 1,
                    markdown |-> markdown]]
    /\ nops' = nops + 1
    /\ UNCHANGED <<db, nfaults, live, lastGC, previewVars, docVars, uiVars>>

\* the for loop up to its next await: ids found in the markdown are passed
\* over without suspending; the result is the index of the next id to delete,
\* or Len(allIds) + 1 when the loop is over
RECURSIVE NextUnused(_, _, _)
NextUnused(allIds, markdown, i) ==
    IF i > Len(allIds) THEN i
    ELSE IF ~Includes(markdown, allIds[i]) THEN i
    ELSE NextUnused(allIds, markdown, i + 1)

\* deletedCount++ after the awaited deleteImage
CountDeleted(deletedCount) == deletedCount + 1

\* the state of a cleanup that has reached index i of allIds, the object
\* store then being store
GcAt(me, i, store) ==
    IF i > Len(me.allIds)
    THEN [me EXCEPT !.pc = "done", !.i = i, !.result = Fulfilled(me.deletedCount),
                    !.dbAtEnd = store]
    ELSE [me EXCEPT !.pc = "delete", !.i = i]

\* what a completed cleanup leaves in the history
GcRecord(me, old) ==
    IF me.pc = "done" /\ me.result.state = "fulfilled" /\ ~me.disturbed
    THEN [md |-> me.markdown, valid |-> TRUE, removed |-> me.deletedCount]
    ELSE old

\* getAllImageIds(): openDB(), then the readonly transaction with getAllKeys()
GcList(c) ==
    /\ proc[c].op = "cleanupUnusedImages" /\ proc[c].pc = "list"
    /\ \E storageOk \in Outcomes :
        LET me == proc[c]
            allIds == StoreGetAllKeys(db)
            listed == [op |-> "cleanupUnusedImages", pc |-> "delete", n |-> me.n,
                       markdown |-> me.markdown, allIds |-> allIds, i |-> 1,
                       deletedCount |-> 0, result |-> Rejected,
                       fault |-> ~storageOk, dbAtStart |-> db,
                       dbAtEnd |-> db, disturbed |-> FALSE,
                       repeat |-> lastGC.valid /\ lastGC.md = me.markdown,
                       firstRemoved |-> lastGC.removed]
            after == IF storageOk
                     THEN GcAt(listed, NextUnused(allIds, me.markdown, 1), db)
                     ELSE [listed EXCEPT !.pc = "done"]
        IN  /\ proc' = [proc EXCEPT ![c] = after]
            /\ lastGC' = GcRecord(after, lastGC)
    /\ CountFault(c)
    /\ UNCHANGED <<db, nops, live, previewVars, docVars, uiVars>>

\* await deleteImage(id) for the current unused id, then on to the next await
GcDelete(c) ==
    /\ proc[c].op = "cleanupUnusedImages" /\ proc[c].pc = "delete"
    /\ \E storageOk \in Outcomes :
        LET me == proc[c]
            id == me.allIds[me.i]
            counted == [me EXCEPT !.deletedCount = CountDeleted(me.deletedCount)]
            after == IF storageOk
                     THEN GcAt(counted, NextUnused(me.allIds, me.markdown, me.i + 1),
                               StoreDelete(db, id))
                     ELSE [me EXCEPT !.pc = "done", !.fault = TRUE]
        IN  IF storageOk
            THEN /\ db' = StoreDelete(db, id)
                 /\ proc' = Disturb(c, [proc EXCEPT ![c] = after])
                 /\ live' = {e \in live : e.id # id}
                 /\ lastGC' = GcRecord(after, [lastGC EXCEPT !.valid = FALSE])
            ELSE /\ proc' = [proc EXCEPT ![c] = after]
                 /\ UNCHANGED <<db, live, lastGC>>
    /\ CountFault(c)
    /\ UNCHANGED <<nops, previewVars, docVars, uiVars>>

(***************************************************************************)
(* getStorageSize()                                                        *)
(***************************************************************************)
StartSize(c) ==
    /\ CanStart(c)
    /\ proc' = [proc EXCEPT ![c] =
                   [op |-> "getStorageSize", pc |-> "txn", n |-> nops + 1]]
    /\ nops' = nops + 1
    /\ UNCHANGED <<db, nfaults, live, lastGC, previewVars, docVars, uiVars>>

SizeTxn(c) ==
    /\ proc[c].op = "getStorageSize" /\ proc[c].pc = "txn"
    /\ \E storageOk \in Outcomes :
        proc' = [proc EXCEPT ![c] =
                    [op |-> "getStorageSize", pc |-> "done", n |-> proc[c].n,
                     fault |-> ~storageOk,
                     result |-> IF storageOk THEN Fulfilled(StorageSize(db))
                                ELSE Rejected]]
    /\ CountFault(c)
    /\ UNCHANGED <<db, nops, live, lastGC, previewVars, docVars, uiVars>>

(***************************************************************************)
(* RevealPreview: the effect that resolves image ids to data URLs          *)
(***************************************************************************)
\* the pattern /img-[a-f0-9]{16}/ matches text at index i
PlaceholderAt(text, i) ==
    /\ MatchAt(text, i, IdPrefix)
    /\ i + Len(IdPrefix) + IdHexLen - 1 <= Len(text)
    /\ \A k \in 1..IdHexLen : IsHexChar(text[i + Len(IdPrefix) + k - 1])

PlaceholderLen == Len(IdPrefix) + IdHexLen

\* html.match(/img-[a-f0-9]{16}/g) || []: the matches from left to right, the
\* search resuming after each match
RECURSIVE MatchAllFrom(_, _)
MatchAllFrom(text, i) ==
    LET at == {j \in i..Len(text) : PlaceholderAt(text, j)}
        first == CHOOSE j \in at : \A k \in at : j <= k
    IN  IF at = {} THEN <<>>
        ELSE <<SubSeq(text, first, first + PlaceholderLen - 1)>>
             \o MatchAllFrom(text, first + PlaceholderLen)

\* [...new Set(list)]: the first occurrence of each element, in order
RECURSIVE Unique(_)
Unique(list) ==
    IF list = <<>> THEN <<>>
    ELSE LET init == Unique(SubSeq(list, 1, Len(list) - 1))
             last == list[Len(list)]
         IN  IF \E k \in 1..Len(init) : init[k] = last THEN init
             ELSE Append(init, last)

\* html.replace(imageId, dataUrl): the first occurrence only
ReplaceFirst(text, sep, rep) ==
    LET j == IndexOf(text, sep, 1)
    IN  IF j = 0 THEN text
        ELSE SubSeq(text, 1, j - 1) \o rep \o SubSeq(text, j + Len(sep), Len(text))

\* html.split(imageId).join(dataUrl)
RECURSIVE SplitJoin(_, _, _)
SplitJoin(text, sep, rep) ==
    LET j == IndexOf(text, sep, 1)
    IN  IF j = 0 THEN text
        ELSE SubSeq(text, 1, j - 1) \o rep
             \o SplitJoin(SubSeq(text, j + Len(sep), Len(text)), sep, rep)

\* a missing image whose placeholder is cut out of the html
DropMissing(html, imageId) == SplitJoin(html, imageId, <<>>)

\* the else branch of `if (dataUrl)`: a warning, the html stays as it is
KeepMissing(html, imageId) == html

\* a rejected getImage that escapes resolveImages: the call ends there
RethrowLookupError(pass) == [pass EXCEPT !.pc = "aborted"]

\* catch (err) { console.error(...) }: the loop goes on
CatchLookupError(pass) == pass

\* setResolvedHtml on every turn of the loop
PublishesEveryTurn(pass) == TRUE

\* setResolvedHtml(html) comes after the for loop
Publishes(pass) == pass.k > Len(pass.imageIds)

\* the start of resolveImages, up to its first await (or to its end when the
\* html has no image id)
StartPass(html) ==
    LET imageIds == Unique(MatchAllFrom(html, 1))
    IN  [source |-> html, html |-> html, imageIds |-> imageIds, k |-> 1,
         pc |-> IF imageIds = <<>> THEN "done" ELSE "lookup",
         image |-> {}, seen |-> <<>>, faulted |-> <<>>,
         pubs |-> IF imageIds = <<>> THEN 1 ELSE 0,
         latest |-> TRUE, order |-> 0]

\* number of passes that have completed
Completed(ps) == Cardinality({q \in 1..Len(ps) : ps[q].pc = "done"})

\* the rest of one turn of the loop once getImage(imageId) has settled with
\* result, on to the next await or to the end of resolveImages
Settle(pass, result, isLatest, order) ==
    LET imageId == pass.imageIds[pass.k]
        handled ==
            IF result.state = "rejected" THEN CatchLookupError(pass)
            ELSE IF result.value # Null
                 THEN [pass EXCEPT !.html = SplitJoin(pass.html, imageId, result.value)]
            ELSE [pass EXCEPT !.html = KeepMissing(pass.html, imageId)]
        turned == [handled EXCEPT !.k = pass.k + 1, !.image = {}]
    IN  IF handled.pc = "aborted" THEN handled
        ELSE IF Publishes(turned)
             THEN [turned EXCEPT
                      !.pc = IF turned.k > Len(turned.imageIds) THEN "done" ELSE "lookup",
                      !.pubs = turned.pubs + 1,
                      !.latest = isLatest,
                      !.order = order]
        ELSE [turned EXCEPT !.pc = "lookup"]

\* what the step of pass p publishes, if anything
Published(old, new, current) == IF new.pubs > old.pubs THEN new.html ELSE current

(***************************************************************************)
(* RevealPreview: markdownToSlides                                         *)
(***************************************************************************)
Min(S) == CHOOSE x \in S : \A y \in S : x <= y

NewLine == "\n"

\* the character U+0060, which a string of this language cannot hold
Backtick == "U+0060"

\* text.split(sep): the pieces between the occurrences of sep from index i on
RECURSIVE SplitFrom(_, _, _)
SplitFrom(text, sep, i) ==
    Bind(IndexOf(text, sep, i), LAMBDA j :
        IF j = 0 THEN <<SubSeq(text, i, Len(text))>>
        ELSE <<SubSeq(text, i, j - 1)>> \o SplitFrom(text, sep, j + Len(sep)))

\* pieces.join(sep)
RECURSIVE Join(_, _)
Join(pieces, sep) ==
    IF Len(pieces) = 0 THEN <<>>
    ELSE IF Len(pieces) = 1 THEN pieces[1]
    ELSE pieces[1] \o sep \o Join(Tail(pieces), sep)

\* the lines of a text: what ^ and $ delimit under the m flag
LinesOf(text) == SplitFrom(text, <<NewLine>>, 1)

\* the white space String.trim() removes (of the characters of the model)
IsSpace(c) == c \in {" ", NewLine, "\t"}

\* text.trim()
Trim(text) ==
    Bind({k \in 1..Len(text) : ~IsSpace(text[k])}, LAMBDA inked :
        IF inked = {} THEN <<>>
        ELSE SubSeq(text, Min(inked), CHOOSE k \in inked : \A j \in inked : j <= k))

\* the delimiter of /\n---\n/
SlideBreak == <<"\n", "-", "-", "-", "\n">>

\* markdown.split(/\n---\n/) without the pieces that are empty
SplitNonEmpty(markdown) ==
    LET pieces == SplitFrom(markdown, SlideBreak, 1)
    IN  SelectSeq(pieces, LAMBDA s : s # <<>>)

\* markdown.split(/\n---\n/)
SplitSlides(markdown) == SplitFrom(markdown, SlideBreak, 1)

\* one line under html.replace(/^MARK (.+)$/gm, '<TAG>$1</TAG>')
HeaderLine(line, mark, tag) ==
    IF MatchAt(line, 1, mark) /\ Len(line) > Len(mark)
    THEN <<"<">> \o tag \o <<">">> \o SubSeq(line, Len(mark) + 1, Len(line))
         \o <<"<", "/">> \o tag \o <<">">>
    ELSE line

\* html.replace(/^MARK (.+)$/gm, '<TAG>$1</TAG>')
HeaderPass(html, mark, tag) ==
    Bind(LinesOf(html), LAMBDA lines :
        Join([k \in 1..Len(lines) |-> HeaderLine(lines[k], mark, tag)], <<NewLine>>))

Fence == <<Backtick, Backtick, Backtick>>
MermaidOpen == <<Backtick, Backtick, Backtick, "m", "e", "r", "m", "a", "i", "d", "\n">>

\* `<div class="mermaid fragment">${code.trim()}</div>`
MermaidDiv(code) ==
    <<"<", "d", "i", "v", " ", "c", "l", "a", "s", "s", "=", "\"", "m", "e", "r", "m", "a", "i", "d", " ", "f", "r", "a", "g", "m", "e", "n", "t", "\"", ">">> \o Trim(code) \o <<"<", "/", "d", "i", "v", ">">>

\* html.replace(/```mermaid\n([\s\S]*?)```/g, ...) from index i on
RECURSIVE MermaidFrom(_, _)
MermaidFrom(html, i) ==
    Bind(IndexOf(html, MermaidOpen, i), LAMBDA p :
    Bind(IF p = 0 THEN 0 ELSE IndexOf(html, Fence, p + Len(MermaidOpen)), LAMBDA q :
        IF q = 0 THEN SubSeq(html, i, Len(html))
        ELSE SubSeq(html, i, p - 1)
             \o MermaidDiv(SubSeq(html, p + Len(MermaidOpen), q - 1))
             \o MermaidFrom(html, q + Len(Fence))))

\* the character class \w
IsWordChar(c) ==
    c \in {"a", "b", "c", "d", "e", "f", "g", "h", "i", "j", "k", "l", "m",
           "n", "o", "p", "q", "r", "s", "t", "u", "v", "w", "x", "y", "z",
           "A", "B", "C", "D", "E", "F", "G", "H", "I", "J", "K", "L", "M",
           "N", "O", "P", "Q", "R", "S", "T", "U", "V", "W", "X", "Y", "Z",
           "0", "1", "2", "3", "4", "5", "6", "7", "8", "9", "_"}

\* the index after the longest run of word characters that starts at i
WordEnd(text, i) ==
    Min({k \in i..(Len(text) + 1) : k > Len(text) \/ ~IsWordChar(text[k])})

\* escapeHtml on one character: what innerHTML gives for a text node
EscapeChar(c) ==
    IF c = "&" THEN <<"&", "a", "m", "p", ";">>
    ELSE IF c = "<" THEN <<"&", "l", "t", ";">>
    ELSE IF c = ">" THEN <<"&", "g", "t", ";">>
    ELSE <<c>>

\* escapeHtml(text)
escapeHtml(text) == Concat([k \in 1..Len(text) |-> EscapeChar(text[k])])

\* `<pre><code${langClass}>${escapeHtml(code.trim())}</code></pre>`
CodeBlock(lang, code) ==
    <<"<", "p", "r", "e", ">", "<", "c", "o", "d", "e">>
    \o (IF lang = <<>> THEN <<>> ELSE <<" ", "c", "l", "a", "s", "s", "=", "\"", "l", "a", "n", "g", "u", "a", "g", "e", "-">> \o lang \o <<"\"">>)
    \o <<">">> \o escapeHtml(Trim(code)) \o <<"<", "/", "c", "o", "d", "e", ">", "<", "/", "p", "r", "e", ">">>

\* /```(\w+)?\n([\s\S]*?)```/ matches at index p: a fence, a run of word
\* characters, a line feed, and a closing fence further on
CodeBlockAt(html, p) ==
    /\ MatchAt(html, p, Fence)
    /\ Bind(WordEnd(html, p + Len(Fence)), LAMBDA w :
          /\ w <= Len(html)
          /\ html[w] = NewLine
          /\ IndexOf(html, Fence, w + 1) # 0)

\* html.replace(/```(\w+)?\n([\s\S]*?)```/g, ...) from index i on
RECURSIVE CodeBlocksFrom(_, _)
CodeBlocksFrom(html, i) ==
    Bind({p \in i..Len(html) : CodeBlockAt(html, p)}, LAMBDA at :
        IF at = {} THEN SubSeq(html, i, Len(html))
        ELSE Bind(Min(at), LAMBDA p :
             Bind(WordEnd(html, p + Len(Fence)), LAMBDA w :
             Bind(IndexOf(html, Fence, w + 1), LAMBDA q :
                 SubSeq(html, i, p - 1)
                 \o CodeBlock(SubSeq(html, p + Len(Fence), w - 1), SubSeq(html, w + 1, q - 1))
                 \o CodeBlocksFrom(html, q + Len(Fence))))))

\* where a span opened by open at index p closes: the least index of close
\* with at least one character in between and none of them in excl; 0 if none
SpanClose(html, p, open, close, excl) ==
    IF ~MatchAt(html, p, open) THEN 0
    ELSE Bind({q \in (p + Len(open) + 1)..Len(html) :
                 /\ MatchAt(html, q, close)
                 /\ \A k \in (p + Len(open))..(q - 1) : html[k] \notin excl},
              LAMBDA at : IF at = {} THEN 0 ELSE Min(at))

\* html.replace(/OPEN(CONTENT+?)CLOSE/g, 'BEFORE$1AFTER') from index i on
RECURSIVE SpansFrom(_, _, _, _, _, _, _)
SpansFrom(html, i, open, close, excl, before, after) ==
    Bind({p \in i..Len(html) : SpanClose(html, p, open, close, excl) # 0}, LAMBDA at :
        IF at = {} THEN SubSeq(html, i, Len(html))
        ELSE Bind(Min(at), LAMBDA p :
             Bind(SpanClose(html, p, open, close, excl), LAMBDA q :
                 SubSeq(html, i, p - 1)
                 \o before \o SubSeq(html, p + Len(open), q - 1) \o after
                 \o SpansFrom(html, q + Len(close), open, close, excl, before, after))))

\* html.replace(/`([^`]+)`/g, '<code>$1</code>')
InlineCode(html) ==
    SpansFrom(html, 1, <<Backtick>>, <<Backtick>>, {Backtick}, <<"<", "c", "o", "d", "e", ">">>, <<"<", "/", "c", "o", "d", "e", ">">>)

\* html.replace(/\*\*(.+?)\*\*/g, '<strong>$1</strong>')
Bold(html) ==
    SpansFrom(html, 1, <<"*", "*">>, <<"*", "*">>, {NewLine}, <<"<", "s", "t", "r", "o", "n", "g", ">">>, <<"<", "/", "s", "t", "r", "o", "n", "g", ">">>)

\* html.replace(/\*(.+?)\*/g, '<em>$1</em>')
Italic(html) ==
    SpansFrom(html, 1, <<"*">>, <<"*">>, {NewLine}, <<"<", "e", "m", ">">>, <<"<", "/", "e", "m", ">">>)

\* line.match(/^[ ]*- /): the number of leading spaces of a list line, -1 for
\* any other line
ListIndent(line) ==
    Bind(Min({k \in 0..Len(line) : k = Len(line) \/ line[k + 1] # " "}), LAMBDA n :
        IF MatchAt(line, n + 1, <<"-", " ">>) THEN n ELSE 0 - 1)

\* line.match(/^([ ]*)- (.*)$/): { indent, text }
ListItemOf(line) ==
    Bind(ListIndent(line), LAMBDA n :
        [indent |-> n, text |-> SubSeq(line, n + 3, Len(line))])

\* an item counts as a sibling when it is indented at least as far as expected
IsSiblingOrDeeper(item, expectedIndent) == item.indent >= expectedIndent

\* item.indent === expectedIndent
IsSibling(item, expectedIndent) == item.indent = expectedIndent

\* a look-ahead that takes only the items one level deeper
NestedEndOneLevel(items, j, expectedIndent) ==
    Min({k \in j..(Len(items) + 1) :
            k > Len(items) \/ items[k].indent # expectedIndent + 2})

\* while (j < items.length && items[j].indent > expectedIndent) j++: the index
\* the look-ahead from j stops at
NestedEnd(items, j, expectedIndent) ==
    Min({k \in j..(Len(items) + 1) :
            k > Len(items) \/ items[k].indent <= expectedIndent})

LiOpen == <<"<", "l", "i", " ", "c", "l", "a", "s", "s", "=", "\"", "f", "r", "a", "g", "m", "e", "n", "t", "\"", ">">>
LiClose == <<"<", "/", "l", "i", ">", "\n">>

\* a list item without the fragment class when it has a sub-list
ListEntryPlainParent(text, nested) ==
    IF nested = <<>> THEN LiOpen \o text \o LiClose
    ELSE <<"<", "l", "i", ">">> \o text \o <<NewLine>> \o nested \o LiClose

\* `<li class="fragment">${item.text}</li>\n`, with `\n${parseList(...)}`
\* after the text when there are nested items
ListEntry(text, nested) ==
    IF nested = <<>> THEN LiOpen \o text \o LiClose
    ELSE LiOpen \o text \o <<NewLine>> \o nested \o LiClose

\* parseList(items, depth), and its while loop from index i on
RECURSIVE parseList(_, _)
RECURSIVE ParseItems(_, _, _)
ParseItems(items, i, depth) ==
    Bind(depth * 2, LAMBDA expectedIndent :
    Bind(NestedEnd(items, i + 1, expectedIndent), LAMBDA j :
    Bind(SubSeq(items, i + 1, j - 1), LAMBDA nestedItems :
        IF i > Len(items) THEN <<>>
        ELSE IF IsSibling(items[i], expectedIndent)
        THEN ListEntry(items[i].text,
                       IF nestedItems = <<>> THEN <<>>
                       ELSE parseList(nestedItems, depth + 1))
             \o ParseItems(items, j, depth)
        ELSE ParseItems(items, i + 1, depth))))

parseList(items, depth) ==
    <<"<", "u", "l", ">", "\n">> \o ParseItems(items, 1, depth) \o <<"<", "/", "u", "l", ">">>

\* the list pass over the lines from line k on: a run of list lines, with the
\* line feed that ends it, becomes parseList of its items
RECURSIVE ListsFrom(_, _)
ListsFrom(lines, k) ==
    IF k > Len(lines) THEN <<>>
    ELSE IF ListIndent(lines[k]) >= 0
    THEN Bind(Min({e \in k..Len(lines) :
                      e = Len(lines) \/ ListIndent(lines[e + 1]) < 0}), LAMBDA m :
             parseList([e \in 1..(m - k + 1) |-> ListItemOf(lines[k + e - 1])], 0)
             \o ListsFrom(lines, m + 1))
    ELSE lines[k] \o (IF k < Len(lines) THEN <<NewLine>> ELSE <<>>)
         \o ListsFrom(lines, k + 1)

\* html.replace(/(?:^[ ]*- .*$\n?)+/gm, (listBlock) => parseList(items))
Lists(html) == ListsFrom(LinesOf(html), 1)

\* /OPEN(.+?)\]\((.+?)\)/ matches at index p: <<q, r>> with q the index of
\* the "](" and r the index of the ")", <<0, 0>> when there is no match
RefAt(html, p, open) ==
    Bind(SpanClose(html, p, open, <<"]", "(">>, {NewLine}), LAMBDA q :
    Bind(IF q = 0 THEN 0 ELSE SpanClose(html, q, <<"]", "(">>, <<")">>, {NewLine}), LAMBDA r :
        IF r = 0 THEN <<0, 0>> ELSE <<q, r>>))

\* '<a href="$2">$1</a>'
Anchor(label, target) ==
    <<"<", "a", " ", "h", "r", "e", "f", "=", "\"">> \o target \o <<"\"", ">">> \o label \o <<"<", "/", "a", ">">>

\* html.replace(/\[(.+?)\]\((.+?)\)/g, '<a href="$2">$1</a>') from index i on
RECURSIVE LinksFrom(_, _)
LinksFrom(html, i) ==
    Bind({p \in i..Len(html) : RefAt(html, p, <<"[">>)[2] # 0}, LAMBDA at :
        IF at = {} THEN SubSeq(html, i, Len(html))
        ELSE Bind(Min(at), LAMBDA p :
             Bind(RefAt(html, p, <<"[">>), LAMBDA m :
                 SubSeq(html, i, p - 1)
                 \o Anchor(SubSeq(html, p + 1, m[1] - 1), SubSeq(html, m[1] + 2, m[2] - 1))
                 \o LinksFrom(html, m[2] + 1))))

\* '<img class="fragment" src="$2" alt="$1" />'
MdImage(alt, src) ==
    <<"<", "i", "m", "g", " ", "c", "l", "a", "s", "s", "=", "\"", "f", "r", "a", "g", "m", "e", "n", "t", "\"", " ", "s", "r", "c", "=", "\"">> \o src \o <<"\"", " ", "a", "l", "t", "=", "\"">> \o alt \o <<"\"", " ", "/", ">">>

\* html.replace(/!\[(.+?)\]\((.+?)\)/g, ...) from index i on
RECURSIVE ImagesFrom(_, _)
ImagesFrom(html, i) ==
    Bind({p \in i..Len(html) : RefAt(html, p, <<"!", "[">>)[2] # 0}, LAMBDA at :
        IF at = {} THEN SubSeq(html, i, Len(html))
        ELSE Bind(Min(at), LAMBDA p :
             Bind(RefAt(html, p, <<"!", "[">>), LAMBDA m :
                 SubSeq(html, i, p - 1)
                 \o MdImage(SubSeq(html, p + 2, m[1] - 1), SubSeq(html, m[1] + 2, m[2] - 1))
                 \o ImagesFrom(html, m[2] + 1))))

ImgOpen == <<"<", "i", "m", "g">>
ClassAttr == <<"c", "l", "a", "s", "s", "=", "\"">>
FragmentWord == <<"f", "r", "a", "g", "m", "e", "n", "t">>

\* the lookahead [^>]*class="[^"]*fragment succeeds at index i
HasFragmentClass(html, i) ==
    \E c \in i..Len(html) :
        /\ MatchAt(html, c, ClassAttr)
        /\ \A k \in i..(c - 1) : html[k] # ">"
        /\ \E f \in (c + Len(ClassAttr))..Len(html) :
              /\ MatchAt(html, f, FragmentWord)
              /\ \A k \in (c + Len(ClassAttr))..(f - 1) : html[k] # "\""

\* /<img(?![^>]*class="[^"]*fragment)([^>]*)>/ matches at index p: the index
\* of the closing ">", 0 when there is no match
ImgTagAt(html, p) ==
    IF MatchAt(html, p, ImgOpen) /\ ~HasFragmentClass(html, p + Len(ImgOpen))
    THEN Bind({k \in (p + Len(ImgOpen))..Len(html) : html[k] = ">"},
              LAMBDA gt : IF gt = {} THEN 0 ELSE Min(gt))
    ELSE 0

\* html.replace(/<img(?!...)([^>]*)>/g, '<img class="fragment"$1>') from i on
RECURSIVE ImgTagsFrom(_, _)
ImgTagsFrom(html, i) ==
    Bind({p \in i..Len(html) : ImgTagAt(html, p) # 0}, LAMBDA at :
        IF at = {} THEN SubSeq(html, i, Len(html))
        ELSE Bind(Min(at), LAMBDA p :
             Bind(ImgTagAt(html, p), LAMBDA gt :
                 SubSeq(html, i, p - 1)
                 \o <<"<", "i", "m", "g", " ", "c", "l", "a", "s", "s", "=", "\"", "f", "r", "a", "g", "m", "e", "n", "t", "\"">> \o SubSeq(html, p + Len(ImgOpen), gt)
                 \o ImgTagsFrom(html, gt + 1))))

\* one line under html.replace(/^(?!<[hupoli]|$)(.+)$/gm, '<p>$1</p>')
ParagraphLine(line) ==
    IF \/ line = <<>>
       \/ Len(line) >= 2 /\ line[1] = "<" /\ line[2] \in {"h", "u", "p", "o", "l", "i"}
    THEN line
    ELSE <<"<", "p", ">">> \o line \o <<"<", "/", "p", ">">>

\* html.replace(/^(?!<[hupoli]|$)(.+)$/gm, '<p>$1</p>')
Paragraphs(html) ==
    Bind(LinesOf(html), LAMBDA lines :
        Join([k \in 1..Len(lines) |-> ParagraphLine(lines[k])], <<NewLine>>))

\* the passes over one slide, in the order of the source
SlideHtml(slideContent) ==
    LET trimmed == Trim(slideContent)
        h3 == HeaderPass(trimmed, <<"#", "#", "#", " ">>, <<"h", "3">>)
        h2 == HeaderPass(h3, <<"#", "#", " ">>, <<"h", "2">>)
        h1 == HeaderPass(h2, <<"#", " ">>, <<"h", "1">>)
        diagrams == MermaidFrom(h1, 1)
        code == CodeBlocksFrom(diagrams, 1)
        spans == Italic(Bold(InlineCode(code)))
        lists == Lists(spans)
        links == LinksFrom(lists, 1)
        images == ImgTagsFrom(ImagesFrom(links, 1), 1)
    IN  <<"<", "s", "e", "c", "t", "i", "o", "n", ">">> \o Paragraphs(images) \o <<"<", "/", "s", "e", "c", "t", "i", "o", "n", ">">>

\* markdownToSlides(markdown)
markdownToSlides(markdown) ==
    Bind(SplitSlides(markdown), LAMBDA slides :
        Join([k \in 1..Len(slides) |-> SlideHtml(slides[k])], <<NewLine>>))

(***************************************************************************)
(* Inputs.                                                                 *)
(***************************************************************************)
\* the ids of the contents of the model
ImageIds == {generateImageId(FetchBlob(u)) : u \in DataUrls}

IdOfBlob(k) == generateImageId([type |-> MimePng, bytes |-> BlobBytes(k)])

\* what ImageImportModal.handleInsert puts into the document (style omitted)
ImgTag(id) ==
    <<"<", "i", "m", "g", " ", "s", "r", "c", "=", "\"">> \o id
    \o <<"\"", " ", "a", "l", "t", "=", "\"", "i", "\"", " ", "/", ">">>

\* a markdown image reference followed by a broken-off id (its last
\* character is missing)
MdImageThenCut(id, cut) ==
    <<"!", "[", "a", "]", "(">> \o id \o <<")", "\n">>
    \o SubSeq(cut, 1, Len(cut) - 1)

\* document texts handed to cleanupUnusedImages
Docs ==
    {<<>>, ImgTag(IdOfBlob(1)), MdImageThenCut(IdOfBlob(1), IdOfBlob(NumBlobs))}

\* DEFAULT_MARKDOWN, of which the model keeps the first slide
DefaultMarkdown == <<"#", " ", "W", "e", "l", "c", "o", "m", "e", " ", "t", "o", " ", "F", "o", "i", "l", "s", "i", "g", "h", "\n", "\n", "Y", "o", "u", "r", " ", "p", "r", "e", "s", "e", "n", "t", "a", "t", "i", "o", "n", " ", "e", "d", "i", "t", "o", "r", "\n">>

\* document texts typed into or imported by the editor: no image; one
\* imported image
EditDocs == {<<"x">>, ImgTag(IdOfBlob(1))}

\* document texts handed to the preview: those, and an imported image used
\* twice, around a line with a broken-off id and an id run on by one more
\* hexadecimal character
PreviewDocs ==
    EditDocs \cup
    {ImgTag(IdOfBlob(1)) \o <<NewLine>>
         \o SubSeq(IdOfBlob(NumBlobs), 1, PlaceholderLen - 1) \o <<" ">>
         \o IdOfBlob(NumBlobs) \o <<"a", NewLine>>
         \o ImgTag(IdOfBlob(1))}

\* the documents the editor holds when an image is inserted
AppDocs == EditDocs \cup {DefaultMarkdown}

\* changes: { from: pos, insert }
InsertAt(text, pos, insert) ==
    SubSeq(text, 1, pos) \o insert \o SubSeq(text, pos + 1, Len(text))

\* the cursor of the editor: at the start or at the end of the document
Cursors(md) == {0, Len(md)}

\* the document after handleImageInsert
WithImage(md, pos, id) == InsertAt(md, pos, ImgTag(id) \o <<NewLine>>)

(***************************************************************************)
(* App: the document in localStorage.                                      *)
(***************************************************************************)
\* the double quote and the backslash
Quote == "\""
Backslash == "\\"

\* the one-character escapes of a JSON string, and what each stands for
\* (backspace is written as its code point)
JsonEscapes ==
    [c \in {Quote, Backslash, "/", "b", "f", "n", "r", "t"} |->
        CASE c = "b" -> "U+0008"
          [] c = "f" -> "\f"
          [] c = "n" -> "\n"
          [] c = "r" -> "\r"
          [] c = "t" -> "\t"
          [] OTHER -> c]

\* the characters JSON does not allow unescaped inside a string
JsonControls == {"\n", "\r", "\t", "\f", "U+0008"}

\* the digits of a \u escape
JsonHexDigits ==
    {"0", "1", "2", "3", "4", "5", "6", "7", "8", "9",
     "a", "b", "c", "d", "e", "f", "A", "B", "C", "D", "E", "F"}

\* the character a \u escape with the digits h stands for, written as its
\* code point
CodeUnit(h) == "U+" \o h[1] \o h[2] \o h[3] \o h[4]

\* the failure of JSON.parse (a SyntaxError)
SyntaxError == [ok |-> FALSE, value |-> <<>>]

\* c put in front of the characters parsed after it
JsonCons(c, rest) ==
    IF rest.ok THEN [ok |-> TRUE, value |-> <<c>> \o rest.value] ELSE rest

\* the characters of a JSON string from index i on, the opening quote
\* consumed: the closing quote has to be the last character of the text
RECURSIVE JsonChars(_, _)
JsonChars(text, i) ==
    IF i > Len(text) THEN SyntaxError
    ELSE IF text[i] = Quote
    THEN IF i = Len(text) THEN [ok |-> TRUE, value |-> <<>>] ELSE SyntaxError
    ELSE IF text[i] = Backslash
    THEN IF i + 1 > Len(text) THEN SyntaxError
         ELSE IF text[i + 1] \in DOMAIN JsonEscapes
         THEN JsonCons(JsonEscapes[text[i + 1]], JsonChars(text, i + 2))
         ELSE IF /\ text[i + 1] = "u"
                 /\ i + 5 <= Len(text)
                 /\ \A k \in 2..5 : text[i + k] \in JsonHexDigits
         THEN JsonCons(CodeUnit(SubSeq(text, i + 2, i + 5)),
                       JsonChars(text, i + 6))
         ELSE SyntaxError
    ELSE IF text[i] \in JsonControls THEN SyntaxError
    ELSE JsonCons(text[i], JsonChars(text, i + 1))

\* JSON.parse(text) for a text that starts with a double quote
JsonParse(text) == JsonChars(text, 2)

\* the initializer of the markdown state: the stored text, parsed as JSON
\* if it starts and ends with a double quote and parses, DEFAULT_MARKDOWN if
\* there is no stored text or an empty one
LoadMarkdown(stored) ==
    IF stored = <<>> THEN DefaultMarkdown
    ELSE IF stored[1] = Quote /\ stored[Len(stored)] = Quote
    THEN Bind(JsonParse(stored), LAMBDA parsed :
             IF parsed.ok THEN parsed.value ELSE stored)
    ELSE stored

\* documents typed into the editor: a quoted word, a lone quote, two
\* quotes, a quoted text over two lines, a quoted text with an escaped n,
\* two quoted words, a quoted text with a backslash before a q, a word
\* in quotes after a heading mark, and a plain word
SettingsDocs ==
    {<<Quote, "a", Quote>>,
     <<Quote>>,
     <<Quote, Quote>>,
     <<Quote, "a", "\n", "b", Quote>>,
     <<Quote, "a", Backslash, "n", "b", Quote>>,
     <<Quote, "a", Quote, " ", Quote, "b", Quote>>,
     <<Quote, Backslash, "q", Quote>>,
     <<"#", " ", Quote, "a", Quote>>,
     <<"x">>}

\* the documents a page load can make of them
LoadedDocs == {LoadMarkdown(d) : d \in SettingsDocs}

\* useMemo(() => markdownToSlides(markdown), [markdown]): the compiler
\* outputs that are kept
Memo ==
    [md \in PreviewDocs \cup AppDocs \cup SettingsDocs \cup LoadedDocs
            \cup UNION {{WithImage(d, pos, id) :
                            pos \in Cursors(d), id \in ImageIds} :
                        d \in AppDocs}
     |-> markdownToSlides(md)]

\* useMemo(() => markdownToSlides(markdown), [markdown])
UseMemo(md) == Memo[md]

\* compiler outputs handed to the resolver
SlidesHtmls == {Memo[md] : md \in PreviewDocs}

\* what earlier sessions may have left in the object store: storeImage results
StoredFrom(urls) ==
    {StoredImage(generateImageId(FetchBlob(u)), FetchBlob(u)) : u \in urls}

\* the empty store, the first k contents stored as PNG, or the first content
\* stored as JPEG
PersistedStores ==
    {StoredFrom({PngUrl(j) : j \in 1..k}) : k \in 0..NumBlobs}
    \cup {StoredFrom({JpegUrl(1)})}

(***************************************************************************)
(* The steps of the preview.                                               *)
(***************************************************************************)
\* resolveImages up to its first await, for each compiler output
StartedPass == [html \in {Memo[md] : md \in DOMAIN Memo} |-> StartPass(html)]

\* the effect of [slidesHtml]: a new slidesHtml starts resolveImages
StartResolve(html) ==
    /\ Len(passes) < MaxPasses
    /\ slidesHtml' = html
    /\ \E started \in {StartedPass[html]} :
         \E pass \in {[started EXCEPT !.order = Completed(passes) + 1]} :
            /\ passes' = Append(passes, pass)
            /\ resolvedHtml' = IF pass.pubs > 0 THEN pass.html ELSE resolvedHtml

\* a re-render with a new slidesHtml: the effect starts resolveImages
Render(html) ==
    /\ html # slidesHtml
    /\ StartResolve(html)
    /\ UNCHANGED <<storeVars, listHtml, stage, uiVars>>

\* getImage(imageId) of pass p: its transaction
LookupTxn(p) ==
    /\ p \in 1..Len(passes)
    /\ passes[p].pc = "lookup"
    /\ \E storageOk \in Outcomes :
        LET pass == passes[p]
            imageId == pass.imageIds[pass.k]
            got == GetImageTxn(db, imageId, storageOk)
            noted == [pass EXCEPT !.seen = Append(pass.seen, StoreGet(db, imageId)),
                                  !.faulted = Append(pass.faulted, ~storageOk)]
            new == IF got.pc = "read"
                   THEN [noted EXCEPT !.pc = "read", !.image = got.image]
                   ELSE Settle(noted, got.result, p = Len(passes),
                               Completed(passes) + 1)
        IN  /\ passes' = [passes EXCEPT ![p] = new]
            /\ resolvedHtml' = Published(pass, new, resolvedHtml)
            /\ nfaults' = IF storageOk THEN nfaults ELSE nfaults + 1
    /\ UNCHANGED <<db, proc, nops, live, lastGC, slidesHtml, docVars, uiVars>>

\* getImage(imageId) of pass p: its FileReader
LookupRead(p) ==
    /\ p \in 1..Len(passes)
    /\ passes[p].pc = "read"
    /\ \E readerOk \in Outcomes :
        LET pass == passes[p]
            noted == [pass EXCEPT !.faulted[pass.k] = ~readerOk]
            new == Settle(noted, GetImageRead(pass.image, readerOk),
                          p = Len(passes), Completed(passes) + 1)
        IN  /\ passes' = [passes EXCEPT ![p] = new]
            /\ resolvedHtml' = Published(pass, new, resolvedHtml)
            /\ nfaults' = IF readerOk THEN nfaults ELSE nfaults + 1
    /\ UNCHANGED <<db, proc, nops, live, lastGC, slidesHtml, docVars, uiVars>>

(***************************************************************************)
(* Specifications.                                                         *)
(***************************************************************************)
InitStore ==
    /\ db \in PersistedStores
    /\ proc = [c \in Callers |-> Idle]
    /\ nops = 0
    /\ nfaults = 0
    /\ live = {[id |-> r.id, bytes |-> r.blob.bytes] : r \in db}
    /\ lastGC = [md |-> <<>>, valid |-> FALSE, removed |-> 0]

StoreStep(c) ==
    \/ \E u \in DataUrls : StartPut(c, u)
    \/ PutHash(c)
    \/ PutTxn(c)
    \/ \E id \in ImageIds : StartGet(c, id)
    \/ GetTxn(c)
    \/ GetRead(c)
    \/ \E id \in ImageIds : StartDelete(c, id)
    \/ DeleteTxn(c)
    \/ \E md \in Docs : StartGC(c, md)
    \/ GcList(c)
    \/ GcDelete(c)
    \/ StartSize(c)
    \/ SizeTxn(c)

Init ==
    /\ InitStore
    /\ slidesHtml = <<>>
    /\ resolvedHtml = <<>>
    /\ passes = <<>>
    /\ appMarkdown = <<>>
    /\ storedMarkdown = <<>>
    /\ listHtml = <<>>
    /\ stage = "source"
    /\ UiIdle

Next == \E c \in Callers : StoreStep(c)

\* the image store under two concurrent callers
Spec == Init /\ [][Next]_vars

\* RevealPreview mounted with the document md
Mounted(md) ==
    \E html \in {UseMemo(md)} :
        /\ appMarkdown = md
        /\ storedMarkdown = md
        /\ slidesHtml = html
        /\ resolvedHtml = html
        /\ passes = <<[StartedPass[html] EXCEPT !.order = 1]>>
        /\ listHtml = <<>>
        /\ stage = "source"
        /\ UiIdle

InitResolver ==
    /\ InitStore
    /\ \E md \in PreviewDocs : Mounted(md)

NextResolver ==
    \/ \E md \in PreviewDocs :
          \E html \in {UseMemo(md)} : /\ appMarkdown' = md
             /\ storedMarkdown' = md
             /\ Render(html)
    \/ \E p \in 1..MaxPasses : LookupTxn(p)
    \/ \E p \in 1..MaxPasses : LookupRead(p)
    \/ \E id \in ImageIds : proc["A"] = Idle /\ StartDelete("A", id)
    \/ DeleteTxn("A")

\* the preview's resolver over a store left by earlier sessions, next to a
\* caller that deletes one image at some moment
SpecResolver == InitResolver /\ [][NextResolver]_vars

(***************************************************************************)
(* App: the document and the handlers that reach the image store           *)
(***************************************************************************)
\* the caller of the handlers of the toolbar
AppCaller == "A"

\* setMarkdown(md), the re-render it causes, the effect of RevealPreview and
\* the effect that persists the document (localStorage.setItem, taken to
\* succeed)
SetMarkdown(md) ==
    /\ Len(passes) < MaxPasses
    /\ appMarkdown' = md
    /\ storedMarkdown' = md
    /\ \E html \in {UseMemo(md)} :
          IF html = slidesHtml THEN UNCHANGED previewVars
          ELSE StartResolve(html)
    /\ UNCHANGED <<listHtml, stage, export, diagramVars>>

\* MarkdownEditor onChange={setMarkdown}: the user has edited the text
EditorChange(md) ==
    /\ nops < MaxOps
    /\ md # appMarkdown
    /\ SetMarkdown(md)
    /\ nops' = nops + 1
    /\ UNCHANGED <<db, proc, nfaults, live, lastGC, themeVars, starts>>

\* handleNew, the confirm() answered with OK: setMarkdown(DEFAULT_MARKDOWN),
\* setThemeConfig(DEFAULT_THEME_CONFIG)
handleNew ==
    /\ nops < MaxOps
    /\ SetMarkdown(DefaultMarkdown)
    /\ themeConfig' = DEFAULT_THEME_CONFIG
    /\ nops' = nops + 1
    /\ UNCHANGED <<db, proc, nfaults, live, lastGC, localConfig,
                   isThemeSettingsOpen, starts>>

\* handleImportMarkdown: setMarkdown(await file.text())
handleImportMarkdown(text) ==
    /\ nops < MaxOps
    /\ text # appMarkdown
    /\ SetMarkdown(text)
    /\ nops' = nops + 1
    /\ UNCHANGED <<db, proc, nfaults, live, lastGC, themeVars, starts>>

\* an insertion that does not look at how storeImage has settled
handleImageInsertAlways(c) ==
    /\ proc[c].op = "storeImage" /\ proc[c].pc = "done"
    /\ appMarkdown \in AppDocs
    /\ \E pos \in Cursors(appMarkdown) :
          SetMarkdown(WithImage(appMarkdown, pos, proc[c].id))
    /\ proc' = [proc EXCEPT ![c] = Idle]
    /\ UNCHANGED <<db, nops, nfaults, live, lastGC, themeVars, starts>>

\* ImageImportModal.handleInsert after its await storeImage(base64Data):
\* onInsert(html), that is handleImageInsert, at the cursor
handleImageInsert(c) ==
    /\ proc[c].op = "storeImage" /\ proc[c].pc = "done"
    /\ proc[c].result.state = "fulfilled"
    /\ appMarkdown \in AppDocs
    /\ \E pos \in Cursors(appMarkdown) :
          SetMarkdown(WithImage(appMarkdown, pos, proc[c].result.value))
    /\ proc' = [proc EXCEPT ![c] = Idle]
    /\ UNCHANGED <<db, nops, nfaults, live, lastGC, themeVars, starts>>

\* the attribute exportWithInlinedImages looks for
SrcAttr(id) == <<"s", "r", "c", "=", "\"">> \o id \o <<"\"">>

\* exportWithInlinedImages(markdown): await getImage(id) for a reference of
\* the document
ExportLookup(c) ==
    \E id \in ImageIds :
        /\ Includes(appMarkdown, SrcAttr(id))
        /\ StartGet(c, id)

AppStep(c) ==
    \/ \E md \in EditDocs : EditorChange(md)
    \/ handleNew
    \/ \E text \in EditDocs : handleImportMarkdown(text)
    \/ \E u \in DataUrls : StartPut(c, u)
    \/ PutHash(c)
    \/ PutTxn(c)
    \/ handleImageInsert(c)
    \/ ExportLookup(c)
    \/ GetTxn(c)
    \/ GetRead(c)
    \/ \E p \in 1..MaxPasses : LookupTxn(p)
    \/ \E p \in 1..MaxPasses : LookupRead(p)
    \/ \E id \in ImageIds : StartDelete(c, id)
    \/ DeleteTxn(c)
    \/ StartGC(c, appMarkdown)
    \/ GcList(c)
    \/ GcDelete(c)

\* the application opened on a device whose storage works: localStorage holds
\* no saved document, so useState takes DEFAULT_MARKDOWN
InitApp ==
    /\ db \in PersistedStores
    /\ proc = [c \in Callers |-> Idle]
    /\ nops = 0
    /\ nfaults = MaxFaults
    /\ live = {[id |-> r.id, bytes |-> r.blob.bytes] : r \in db}
    /\ lastGC = [md |-> <<>>, valid |-> FALSE, removed |-> 0]
    /\ Mounted(DefaultMarkdown)

NextApp == AppStep(AppCaller)

\* the application: the document, its preview, the handlers of the toolbar,
\* and explicit calls of deleteImage and cleanupUnusedImages
SpecApp == InitApp /\ [][NextApp]_vars

(***************************************************************************)
(* markdownToSlides applied to documents.                                  *)
(***************************************************************************)
\* a body of a code block that looks like a heading
HeadingLikeBody == <<"#", " ", "h">>

\* a fenced code block without a language
FencedBlock(body) == Fence \o <<NewLine>> \o body \o <<NewLine>> \o Fence

\* an image in Markdown syntax
MarkdownImage(alt, src) == <<"!", "[">> \o alt \o <<"]", "(">> \o src \o <<")">>

\* the blocks documents are made of: nothing; a rule; a line of text; a
\* heading; a list with a nested item; a fenced code block whose body looks
\* like a heading; a diagram block; an image in Markdown syntax; an image
\* tag; a link
CompileBlocks ==
    {<<>>,
     <<"-", "-", "-">>,
     <<"a">>,
     <<"#", " ", "h">>,
     <<"-", " ", "x", "\n", " ", " ", "-", " ", "y">>,
     FencedBlock(HeadingLikeBody),
     <<Backtick, Backtick, Backtick, "m", "e", "r", "m", "a", "i", "d", "\n", "g", "\n", Backtick, Backtick, Backtick>>,
     MarkdownImage(<<"a">>, <<"u">>),
     <<"<", "i", "m", "g", " ", "s", "r", "c", "=", "\"", "u", "\"", ">">>,
     <<"[", "l", "]", "(", "u", ")">>}

\* what stands between two blocks: a line feed; a rule on the next line; a
\* rule with a blank line on both sides
Separators == {<<"\n">>, <<"\n", "-", "-", "-", "\n">>, <<"\n", "\n", "-", "-", "-", "\n", "\n">>}

\* the documents of n blocks
RECURSIVE BlockDocs(_)
BlockDocs(n) ==
    IF n = 1 THEN CompileBlocks
    ELSE {d \o s \o b : d \in BlockDocs(n - 1), s \in Separators, b \in CompileBlocks}

CompileDocs == UNION {BlockDocs(n) : n \in 1..MaxBlocks}

\* nothing stored, nothing rendered, and the document md in the editor
InitSource(md) ==
    /\ db = {}
    /\ proc = [c \in Callers |-> Idle]
    /\ nops = 0
    /\ nfaults = 0
    /\ live = {}
    /\ lastGC = [md |-> <<>>, valid |-> FALSE, removed |-> 0]
    /\ slidesHtml = <<>>
    /\ resolvedHtml = <<>>
    /\ passes = <<>>
    /\ appMarkdown = md
    /\ storedMarkdown = md
    /\ listHtml = <<>>
    /\ stage = "source"
    /\ UiIdle

InitCompile == \E md \in CompileDocs : InitSource(md)

\* const slidesHtml = markdownToSlides(markdown)
Compile ==
    /\ stage = "source"
    /\ \E html \in {markdownToSlides(appMarkdown)} : slidesHtml' = html
    /\ stage' = "compiled"
    /\ UNCHANGED <<storeVars, resolvedHtml, passes, appMarkdown,
                   storedMarkdown, listHtml, uiVars>>

NextCompile == Compile

\* the compiler applied to each document of CompileDocs
SpecCompile == InitCompile /\ [][NextCompile]_vars

(***************************************************************************)
(* The list pass applied to list blocks.                                   *)
(***************************************************************************)
\* the texts of the items of a list block, by line
ItemTexts == <<"A", "B", "C", "D", "E", "F">>

\* n spaces
RECURSIVE Spaces(_)
Spaces(n) == IF n = 0 THEN <<>> ELSE <<" ">> \o Spaces(n - 1)

\* the list block whose k-th line is indented by indents[k] spaces
ListBlock(indents) ==
    Join([k \in 1..Len(indents) |->
             Spaces(indents[k]) \o <<"-", " ", ItemTexts[k]>>], <<NewLine>>)

\* the indentations of the lines of list blocks
IndentSeqs == UNION {[1..n -> 0..MaxIndent] : n \in 1..MaxItems}

ListDocs == {ListBlock(indents) : indents \in IndentSeqs}

InitList == \E md \in ListDocs : InitSource(md)

\* html = html.replace(/(?:^[ ]*- .*$\n?)+/gm, ...) on a slide that is one
\* list block
ListPass ==
    /\ stage = "source"
    /\ \E html \in {Lists(appMarkdown)} : listHtml' = html
    /\ stage' = "listed"
    /\ UNCHANGED <<storeVars, previewVars, appMarkdown, storedMarkdown, uiVars>>

NextList == ListPass

\* the list pass applied to each list block of ListDocs
SpecList == InitList /\ [][NextList]_vars

(***************************************************************************)
(* exportWithInlinedImages(markdown)                                       *)
(***************************************************************************)
\* the index after the longest run of [a-f0-9] that starts at i
HexEnd(text, i) ==
    Min({k \in i..(Len(text) + 1) : k > Len(text) \/ ~IsHexChar(text[k])})

\* /!\[([^\]]*)\]\((img-[a-f0-9]+)\)/ at index p: the index after the match,
\* 0 when there is none there
MdRefEnd(text, p) ==
    IF ~MatchAt(text, p, <<"!", "[">>) THEN 0
    ELSE Bind(IndexOf(text, <<"]">>, p + 2), LAMBDA q :
         IF q = 0 \/ ~MatchAt(text, q + 1, <<"(">> \o IdPrefix) THEN 0
         ELSE Bind(HexEnd(text, q + 2 + Len(IdPrefix)), LAMBDA h :
              IF h > q + 2 + Len(IdPrefix) /\ MatchAt(text, h, <<")">>)
              THEN h + 1 ELSE 0))

\* the match of imageRefRegex that starts at p and ends before e: fullMatch,
\* id, and the two ends of what replaces it
MdRef(text, p, e) ==
    Bind(IndexOf(text, <<"]">>, p + 2), LAMBDA q :
        [full |-> SubSeq(text, p, e - 1),
         id |-> SubSeq(text, q + 2, e - 2),
         open |-> SubSeq(text, p, q + 1),
         close |-> <<")">>])

\* /src="(img-[a-f0-9]+)"/ at index p: the index after the match, 0 when
\* there is none there
SrcRefEnd(text, p) ==
    IF ~MatchAt(text, p, <<"s", "r", "c", "=", "\"">> \o IdPrefix) THEN 0
    ELSE Bind(HexEnd(text, p + 5 + Len(IdPrefix)), LAMBDA h :
         IF h > p + 5 + Len(IdPrefix) /\ MatchAt(text, h, <<"\"">>)
         THEN h + 1 ELSE 0)

\* the match of htmlImageRefRegex that starts at p and ends before e
SrcRef(text, p, e) ==
    [full |-> SubSeq(text, p, e - 1),
     id |-> SubSeq(text, p + 5, e - 2),
     open |-> <<"s", "r", "c", "=", "\"">>,
     close |-> <<"\"">>]

\* the two patterns of the export
RefEnd(kind, text, p) ==
    IF kind = "md" THEN MdRefEnd(text, p) ELSE SrcRefEnd(text, p)

Ref(kind, text, p, e) ==
    IF kind = "md" THEN MdRef(text, p, e) ELSE SrcRef(text, p, e)

\* [...markdown.matchAll(regex)] from index i on: the matches from left to
\* right, the search resuming after each match
RECURSIVE MatchesFrom(_, _, _)
MatchesFrom(kind, text, i) ==
    Bind({j \in i..Len(text) : RefEnd(kind, text, j) # 0}, LAMBDA at :
        IF at = {} THEN <<>>
        ELSE Bind(Min(at), LAMBDA p :
             Bind(RefEnd(kind, text, p), LAMBDA e :
                 <<Ref(kind, text, p, e)>> \o MatchesFrom(kind, text, e))))

\* the replacement string of String.replace with its patterns expanded from
\* index i on: $$ is a dollar sign, $& the match, and the two patterns for
\* the text before and after the match
RECURSIVE ExpandFrom(_, _, _, _, _)
ExpandFrom(by, i, matched, before, after) ==
    IF i > Len(by) THEN <<>>
    ELSE IF by[i] = "$" /\ i < Len(by) /\ by[i + 1] \in {"$", "&", Backtick, "'"}
         THEN (CASE by[i + 1] = "$" -> <<"$">>
                 [] by[i + 1] = "&" -> matched
                 [] by[i + 1] = Backtick -> before
                 [] OTHER -> after)
              \o ExpandFrom(by, i + 2, matched, before, after)
    ELSE <<by[i]>> \o ExpandFrom(by, i + 1, matched, before, after)

\* result.replace(fullMatch, by) with a string pattern: the first occurrence
\* only
StringReplace(text, pat, by) ==
    Bind(IndexOf(text, pat, 1), LAMBDA j :
        IF j = 0 THEN text
        ELSE Bind(SubSeq(text, j + Len(pat), Len(text)), LAMBDA after :
             SubSeq(text, 1, j - 1)
             \o ExpandFrom(by, 1, pat, SubSeq(text, 1, j - 1), after)
             \o after))

\* the call has gone through its first k - 1 matches
ExportTurn(call, k) ==
    [call EXCEPT !.k = k, !.image = {},
                 !.pc = IF k > Len(call.matches) THEN "done" ELSE "txn"]

\* the rest of one turn of a loop once getImage(id) has settled with result
ExportSettle(call, result) ==
    Bind(call.matches[call.k], LAMBDA match :
        IF result.state = "rejected" THEN [call EXCEPT !.pc = "failed"]
        ELSE IF result.value = Null THEN ExportTurn(call, call.k + 1)
        ELSE ExportTurn(
                 [call EXCEPT !.result =
                     StringReplace(call.result, match.full,
                                   match.open \o result.value \o match.close)],
                 call.k + 1))

\* exportWithInlinedImages(markdown) up to its first await (or to its end
\* when the document has no reference)
StartExport ==
    /\ export.pc = "idle"
    /\ \E matches \in {MatchesFrom("md", appMarkdown, 1)
                       \o MatchesFrom("src", appMarkdown, 1)} :
         export' = ExportTurn([pc |-> "txn", matches |-> matches, k |-> 1,
                               image |-> {}, result |-> appMarkdown], 1)
    /\ UNCHANGED <<storeVars, previewVars, docVars, diagramVars, themeVars, starts>>

\* await getImage(id): its transaction
ExportTxn ==
    /\ export.pc = "txn"
    /\ \E storageOk \in Outcomes :
         /\ \E got \in {GetImageTxn(db, export.matches[export.k].id, storageOk)} :
              export' = IF got.pc = "read"
                        THEN [export EXCEPT !.pc = "read", !.image = got.image]
                        ELSE ExportSettle(export, got.result)
         /\ nfaults' = IF storageOk THEN nfaults ELSE nfaults + 1
    /\ UNCHANGED <<db, proc, nops, live, lastGC, previewVars, docVars, diagramVars, themeVars, starts>>

\* await getImage(id): its FileReader
ExportRead ==
    /\ export.pc = "read"
    /\ \E readerOk \in Outcomes :
         /\ export' = ExportSettle(export, GetImageRead(export.image, readerOk))
         /\ nfaults' = IF readerOk THEN nfaults ELSE nfaults + 1
    /\ UNCHANGED <<db, proc, nops, live, lastGC, previewVars, docVars, diagramVars, themeVars, starts>>

\* an image tag written by hand, with single quotes
QuotedImgTag(id) == <<"<", "i", "m", "g", " ", "s", "r", "c", "=", "'">> \o id \o <<"'", ">">>

\* the blocks exported documents are made of: an imported image; an image in
\* Markdown syntax; the same with a replacement pattern as its alt text (the
\* match, the text after the match); an imported image of other content; an
\* image tag written by hand; a line of text
ExportBlocks ==
    {ImgTag(IdOfBlob(1)),
     MarkdownImage(<<"a">>, IdOfBlob(1)),
     MarkdownImage(<<"$", "&">>, IdOfBlob(1)),
     MarkdownImage(<<"$", "'">>, IdOfBlob(1)),
     ImgTag(IdOfBlob(NumBlobs)),
     QuotedImgTag(IdOfBlob(1)),
     <<"a">>}

\* what stands between two blocks: a line feed, or a slide delimiter
ExportSeparators == {<<"\n">>, <<"\n", "\n", "-", "-", "-", "\n", "\n">>}

\* the documents exported: one block, or two around a separator
ExportDocs ==
    ExportBlocks \cup
    {a \o sep \o b : a \in ExportBlocks, b \in ExportBlocks, sep \in ExportSeparators}

InitExport ==
    /\ InitStore
    /\ \E md \in ExportDocs :
         /\ appMarkdown = md
         /\ storedMarkdown = md
         /\ slidesHtml = <<>>
         /\ resolvedHtml = <<>>
         /\ passes = <<>>
         /\ listHtml = <<>>
         /\ stage = "source"
         /\ UiIdle

NextExport == StartExport \/ ExportTxn \/ ExportRead

\* handleExportMarkdown on each document of ExportDocs, over each store
SpecExport == InitExport /\ [][NextExport]_vars

(***************************************************************************)
(* Image import next to cleanupUnusedImages.                               *)
(***************************************************************************)
\* storeImage has resolved for caller c: the rest of handleInsert, which its
\* await holds back, is a microtask
InsertPending(c) ==
    /\ proc[c].op = "storeImage"
    /\ proc[c].pc = "done"
    /\ proc[c].result.state = "fulfilled"

\* the steps of one of two handlers running at once: the import dialog
\* (storeImage, then onInsert) and a cleanup given the document of the moment;
\* a pending microtask runs before any other event is handled
ImportStep(c) ==
    \/ handleImageInsert(c)
    \/ /\ \A d \in Callers : ~InsertPending(d)
       /\ \/ \E u \in DataUrls : StartPut(c, u)
          \/ PutHash(c)
          \/ PutTxn(c)
          \/ StartGC(c, appMarkdown)
          \/ GcList(c)
          \/ GcDelete(c)

\* the application opened on DEFAULT_MARKDOWN, over each persisted store
InitImport ==
    /\ InitStore
    /\ Mounted(DefaultMarkdown)

NextImport == \E c \in Callers : ImportStep(c)

\* image imports interleaved with cleanups
SpecImport == InitImport /\ [][NextImport]_vars

(***************************************************************************)
(* DiagramModal: the effect that renders the preview                       *)
(***************************************************************************)
\* DIAGRAM_TEMPLATES: the template texts, cut to one character each
DiagramTemplates == {<<"g">>, <<"p">>}

\* the texts of the textarea: the templates, and one mermaid cannot parse
DiagramCodes == DiagramTemplates \cup {<<"!">>}

FirstTemplate == <<"g">>

\* whether mermaid.render accepts the text
ParsesAsDiagram(text) == text \in DiagramTemplates

\* the svg of mermaid.render(`mermaid-preview-${id}`, text)
Svg(id, text) == <<"<svg>", id, text>>

\* (e as Error).message || 'Invalid diagram syntax'
DiagramErrorMessage == "Invalid diagram syntax"

\* a render that accepts the outcome whatever has been started since
IsCurrentAlways(currentRenderId) == TRUE

\* currentRenderId === renderIdRef.current
IsCurrent(currentRenderId) == currentRenderId = renderIdRef

\* render() up to its first await: the counter, the preview cleared, then the
\* 300 ms timer
StartRender(text) ==
    /\ Len(renders) < MaxRenders
    /\ renderIdRef' = renderIdRef + 1
    /\ previewInner' = <<>>
    /\ renders' = Append(renders, [id |-> renderIdRef + 1, code |-> text,
                                   pc |-> "debounce", rendered |-> FALSE,
                                   applied |-> FALSE])

\* the textarea's onChange: setCode(e.target.value), and the effect on [code]
setCode(text) ==
    /\ text # diagramCode
    /\ diagramCode' = text
    /\ StartRender(text)
    /\ UNCHANGED <<storeVars, previewVars, docVars, export, diagramError, themeVars, starts>>

\* handleTemplateSelect(template): setCode(template.template), setError(null)
handleTemplateSelect(template) ==
    /\ diagramCode' = template
    /\ diagramError' = Null
    /\ IF template # diagramCode THEN StartRender(template)
       ELSE UNCHANGED <<renderIdRef, previewInner, renders>>
    /\ UNCHANGED <<storeVars, previewVars, docVars, export, themeVars, starts>>

\* the timer of render r has fired: a render that is no longer current
\* returns, a current one calls mermaid.render
DebounceElapsed(r) ==
    /\ r \in 1..Len(renders)
    /\ renders[r].pc = "debounce"
    /\ renders' = [renders EXCEPT ![r] =
                      IF IsCurrent(renders[r].id)
                      THEN [@ EXCEPT !.pc = "mermaid", !.rendered = TRUE]
                      ELSE [@ EXCEPT !.pc = "done"]]
    /\ UNCHANGED <<storeVars, previewVars, docVars, export, diagramCode,
                   renderIdRef, previewInner, diagramError, themeVars, starts>>

\* mermaid.render of render r has settled: the svg and setError(null), or
\* the catch block with setError(message), each under the check of the id
MermaidSettled(r) ==
    /\ r \in 1..Len(renders)
    /\ renders[r].pc = "mermaid"
    /\ \E current \in {IsCurrent(renders[r].id)} :
         /\ renders' = [renders EXCEPT ![r] =
                           [@ EXCEPT !.pc = "done", !.applied = current]]
         /\ previewInner' =
                IF current /\ ParsesAsDiagram(renders[r].code)
                THEN Svg(renders[r].id, renders[r].code) ELSE previewInner
         /\ diagramError' =
                IF ~current THEN diagramError
                ELSE IF ParsesAsDiagram(renders[r].code) THEN Null
                ELSE DiagramErrorMessage
    /\ UNCHANGED <<storeVars, previewVars, docVars, export, diagramCode,
                   renderIdRef, themeVars, starts>>

\* the dialog opened on the first template: the effect has run once
InitDiagram ==
    /\ db = {}
    /\ proc = [c \in Callers |-> Idle]
    /\ nops = 0
    /\ nfaults = 0
    /\ live = {}
    /\ lastGC = [md |-> <<>>, valid |-> FALSE, removed |-> 0]
    /\ slidesHtml = <<>>
    /\ resolvedHtml = <<>>
    /\ passes = <<>>
    /\ appMarkdown = <<>>
    /\ storedMarkdown = <<>>
    /\ listHtml = <<>>
    /\ stage = "source"
    /\ export = [pc |-> "idle"]
    /\ diagramCode = FirstTemplate
    /\ renderIdRef = 1
    /\ previewInner = <<>>
    /\ diagramError = Null
    /\ renders = <<[id |-> 1, code |-> FirstTemplate, pc |-> "debounce",
                    rendered |-> FALSE, applied |-> FALSE]>>
    /\ themeConfig = DEFAULT_THEME_CONFIG
    /\ localConfig = DEFAULT_THEME_CONFIG
    /\ isThemeSettingsOpen = FALSE
    /\ starts = 0

NextDiagram ==
    \/ \E text \in DiagramCodes : setCode(text)
    \/ \E template \in DiagramTemplates : handleTemplateSelect(template)
    \/ \E r \in 1..MaxRenders : DebounceElapsed(r)
    \/ \E r \in 1..MaxRenders : MermaidSettled(r)

\* the open diagram dialog: edits of the code and the renders they start
SpecDiagram == InitDiagram /\ [][NextDiagram]_vars

(***************************************************************************)
(* Claims about the image store.                                           *)
(***************************************************************************)
\* text contains pat at some position (the definition of "literal substring")
OccursIn(text, pat) ==
    \E i \in 1..Len(text) :
        /\ i + Len(pat) - 1 <= Len(text)
        /\ \A k \in 1..Len(pat) : text[i + k - 1] = pat[k]

DonePuts == {c \in Callers : proc[c].op = "storeImage" /\ proc[c].pc = "done"}
DoneGets == {c \in Callers : proc[c].op = "getImage" /\ proc[c].pc = "done"}
DoneGCs == {c \in Callers : proc[c].op = "cleanupUnusedImages" /\ proc[c].pc = "done"}

\* C2: a storeImage of bytes that are already stored returns the id the
\* earlier storeImage of those bytes returned, leaves exactly one record under
\* that id, and leaves getStorageSize as it was before the call.
C2_PutIdempotent ==
    \A c \in DonePuts :
        (proc[c].result.state = "fulfilled" /\ proc[c].priorIds # {}) =>
            /\ proc[c].priorIds = {proc[c].result.value}
            /\ proc[c].entries = 1
            /\ proc[c].sizeAfter = proc[c].sizeBefore

C2_Witness ==
    \E c \in DonePuts :
        /\ proc[c].result.state = "fulfilled"
        /\ proc[c].priorIds # {}
        /\ proc[c].sizeBefore > 0

\* C3: a cleanupUnusedImages(markdown) that no other caller's put or delete
\* interleaves with leaves exactly the records whose id is a literal substring
\* of markdown, and returns the number of records it removed.
C3_GcExact ==
    \A c \in DoneGCs :
        (proc[c].result.state = "fulfilled" /\ ~proc[c].disturbed) =>
            /\ proc[c].dbAtEnd =
                   {r \in proc[c].dbAtStart : OccursIn(proc[c].markdown, r.id)}
            /\ proc[c].result.value =
                   Cardinality(proc[c].dbAtStart) - Cardinality(proc[c].dbAtEnd)

C3_Witness ==
    \E c \in DoneGCs :
        /\ proc[c].result.state = "fulfilled"
        /\ ~proc[c].disturbed
        /\ proc[c].result.value >= 1
        /\ proc[c].dbAtEnd # {}

\* C4: a cleanupUnusedImages(markdown) that starts right after an undisturbed
\* cleanupUnusedImages(markdown) of the same text has completed, and is not
\* disturbed itself, returns 0 and leaves the store as it found it.
C4_GcIdempotent ==
    \A c \in DoneGCs :
        (proc[c].result.state = "fulfilled" /\ proc[c].repeat /\ ~proc[c].disturbed) =>
            /\ proc[c].result.value = 0
            /\ proc[c].dbAtEnd = proc[c].dbAtStart

C4_Witness ==
    \E c \in DoneGCs :
        /\ proc[c].result.state = "fulfilled"
        /\ proc[c].repeat
        /\ ~proc[c].disturbed
        /\ proc[c].firstRemoved >= 1
        /\ proc[c].dbAtStart # {}

\* C5: a getImage(id) is rejected only by a storage fault; otherwise it
\* resolves to null when no put of id is in effect at its transaction (never
\* put, or deleted since), and to a data URL carrying the bytes of the put in
\* effect when there is one.
C5_GetVisible ==
    \A c \in DoneGets :
        /\ proc[c].result.state = "rejected" => proc[c].fault
        /\ (~proc[c].fault /\ proc[c].liveSeen = {}) => proc[c].result = Fulfilled(Null)
        /\ (~proc[c].fault /\ proc[c].liveSeen # {}) =>
               /\ proc[c].result.state = "fulfilled"
               /\ proc[c].result.value # Null
               /\ \A e \in proc[c].liveSeen :
                      FetchBlob(proc[c].result.value).bytes = e.bytes

\* a get that found the bytes a storeImage of this behaviour stored, next to a
\* completed storeImage of another caller
C5_Witness ==
    \E c \in DoneGets, d \in DonePuts :
        /\ proc[d].result.state = "fulfilled"
        /\ proc[d].n < proc[c].n
        /\ proc[d].priorIds = {}
        /\ proc[c].id = proc[d].id
        /\ proc[c].result.state = "fulfilled"
        /\ proc[c].result.value # Null
        /\ FetchBlob(proc[c].result.value).bytes = FetchBlob(proc[d].dataUrl).bytes

\* the two calls were in flight at the same time
Overlapped(c, d) == proc[d].n \in proc[c].peers \/ proc[c].n \in proc[d].peers

\* C10: two storeImage calls of the same bytes that were in flight at the same
\* time, neither hit by a storage fault, are both fulfilled with the same id,
\* and each leaves exactly one record under that id.
C10_ConcurrentPut ==
    \A c, d \in DonePuts :
        (/\ c # d
         /\ Overlapped(c, d)
         /\ proc[c].blob.bytes = proc[d].blob.bytes
         /\ ~proc[c].fault /\ ~proc[d].fault) =>
            /\ proc[c].result.state = "fulfilled"
            /\ proc[d].result.state = "fulfilled"
            /\ proc[c].result.value = proc[d].result.value
            /\ proc[c].entries = 1
            /\ proc[d].entries = 1

C10_Witness ==
    \E c, d \in DonePuts :
        /\ c # d
        /\ Overlapped(c, d)
        /\ proc[c].blob.bytes = proc[d].blob.bytes
        /\ proc[c].dataUrl # proc[d].dataUrl
        /\ proc[c].result.state = "fulfilled"
        /\ proc[d].result.state = "fulfilled"


DoneDeletes == {c \in Callers : proc[c].op = "deleteImage" /\ proc[c].pc = "done"}

\* C11: a getImage(id) whose transaction runs while an undisturbed
\* cleanupUnusedImages of another caller is between two of its deletes, and
\* which no storage fault hits, is fulfilled: with null when the cleanup has
\* deleted id, and with a data URL carrying all the bytes stored under id when
\* the cleanup listed id and has not deleted it, whatever the cleanup does
\* before the get's FileReader has finished.
C11_GetDuringSweep ==
    \A c \in DoneGets :
        \A s \in proc[c].sweeps :
            ~proc[c].fault =>
                /\ proc[c].result.state = "fulfilled"
                /\ proc[c].id \in s.swept => proc[c].result.value = Null
                /\ proc[c].id \in s.listed \ s.swept =>
                       /\ proc[c].result.value # Null
                       /\ \A e \in proc[c].liveSeen :
                              FetchBlob(proc[c].result.value).bytes = e.bytes
                       /\ proc[c].liveSeen # {}

\* a get that returned the asset although the cleanup deleted the record
\* between the get's transaction and the end of its FileReader
C11_Witness ==
    \E c \in DoneGets :
        /\ proc[c].sweeps # {}
        /\ proc[c].result.state = "fulfilled"
        /\ proc[c].result.value # Null
        /\ StoreGet(db, proc[c].id) = {}

\* a get during a cleanup that had already deleted the record
C11_WitnessAbsent ==
    \E c \in DoneGets :
        \E s \in proc[c].sweeps :
            /\ proc[c].id \in s.swept
            /\ proc[c].result = Fulfilled(Null)

\* C12: a deleteImage(id) that no storage fault hits is fulfilled and removes
\* the record of id and nothing else; when no record of id is stored it leaves
\* the store as it was, and deleting id from any store twice gives the store
\* that deleting it once gives.
C12_DeleteIdempotent ==
    /\ \A c \in DoneDeletes :
          ~proc[c].fault =>
              /\ proc[c].result.state = "fulfilled"
              /\ proc[c].after = {r \in proc[c].before : r.id # proc[c].id}
              /\ StoreGet(proc[c].before, proc[c].id) = {} =>
                     proc[c].after = proc[c].before
    /\ \A id \in ImageIds :
          StoreDelete(StoreDelete(db, id), id) = StoreDelete(db, id)

\* the second of two deletes of one id: the record was gone, other records
\* were there
C12_Witness ==
    \E c, d \in DoneDeletes :
        /\ proc[c].n < proc[d].n
        /\ proc[c].id = proc[d].id
        /\ StoreGet(proc[c].before, proc[c].id) # {}
        /\ proc[d].result.state = "fulfilled"
        /\ StoreGet(proc[d].before, proc[d].id) = {}
        /\ proc[d].before # {}

(***************************************************************************)
(* Claims about the preview's resolver.                                    *)
(***************************************************************************)
Passes == 1..Len(passes)

AllPassesDone == \A p \in Passes : passes[p].pc = "done"

\* the lookups of a pass that found a record and were not hit by a fault
Found(pass) ==
    {k \in 1..Len(pass.seen) : pass.seen[k] # {} /\ ~pass.faulted[k]}

\* the lookups of a pass that found no record
Missing(pass) ==
    {k \in 1..Len(pass.seen) : pass.seen[k] = {} /\ ~pass.faulted[k]}

\* the data URL of the record the k-th lookup saw in the store
DataSeen(pass, k) == ReadAsDataURL((CHOOSE r \in pass.seen[k] : TRUE).blob)

\* text from index i on, with every placeholder (they start at the indexes in
\* at) whose id a lookup of the pass found replaced by the data URL of the
\* record it saw, scanning left to right
RECURSIVE SubstitutedFrom(_, _, _, _)
SubstitutedFrom(text, at, i, pass) ==
    LET rest == {j \in at : j >= i}
        first == CHOOSE j \in rest : \A k \in rest : j <= k
        id == SubSeq(text, first, first + PlaceholderLen - 1)
        hits == {k \in Found(pass) : pass.imageIds[k] = id}
    IN  IF rest = {} THEN SubSeq(text, i, Len(text))
        ELSE SubSeq(text, i, first - 1)
             \o (IF hits = {} THEN id ELSE DataSeen(pass, CHOOSE k \in hits : TRUE))
             \o SubstitutedFrom(text, rest, first + PlaceholderLen, pass)

\* text with every placeholder that a lookup of the pass found replaced
Substituted(text, pass) ==
    SubstitutedFrom(text, {j \in 1..Len(text) : PlaceholderAt(text, j)}, 1, pass)

\* C1: once every pass has completed, resolvedHtml is the result of the pass
\* started last (a pass overtaken by a later one does not leave its result).
C1_StaleDiscarded ==
    AllPassesDone => resolvedHtml = passes[Len(passes)].html

\* C6: a pass calls setResolvedHtml at most once, and only when the lookup of
\* each of its image ids has settled; resolvedHtml is always the initial
\* slidesHtml or the final html of a completed pass.
C6_NoPartialPublish ==
    /\ \A p \in Passes :
        /\ passes[p].pubs <= 1
        /\ passes[p].pubs = 1 =>
               /\ passes[p].pc = "done"
               /\ Len(passes[p].seen) = Len(passes[p].imageIds)
        /\ passes[p].pc = "done" => passes[p].pubs = 1
    /\ \/ resolvedHtml = passes[1].source
       \/ \E p \in Passes : passes[p].pc = "done" /\ resolvedHtml = passes[p].html

\* a pass that has substituted its first id, has another one to look up, and
\* has published nothing
C6_Witness ==
    \E p \in Passes :
        /\ Len(passes[p].imageIds) = 2
        /\ passes[p].k = 2
        /\ passes[p].html # passes[p].source
        /\ passes[p].pubs = 0
        /\ resolvedHtml # passes[p].html

\* C7: in a completed pass, an image id that its lookup did not find in the
\* store occurs in the result as often as in the source, the pass has
\* published, and no id that a lookup found is left in the result; no pass
\* stops before its end.
C7_MissingLeftAsIs ==
    \A p \in Passes :
        /\ passes[p].pc \in {"lookup", "read", "done"}
        /\ passes[p].pc = "done" =>
            \A k \in Missing(passes[p]) :
                LET left == Occurrences(passes[p].html, passes[p].imageIds[k])
                IN  /\ left = Occurrences(passes[p].source, passes[p].imageIds[k])
                    /\ left >= 1
                    /\ passes[p].pubs = 1
                    /\ \A j \in Found(passes[p]) :
                           Occurrences(passes[p].html, passes[p].imageIds[j]) = 0

C7_Witness ==
    \E p \in Passes :
        /\ passes[p].pc = "done"
        /\ Missing(passes[p]) # {}
        /\ Found(passes[p]) # {}
        /\ resolvedHtml = passes[p].html

\* C8: the result of a completed pass is its source with every occurrence of
\* every placeholder whose id a lookup found replaced by that record's data
\* URL, and every other character as it was.
C8_AllOccurrencesReplaced ==
    \A p \in Passes :
        passes[p].pc = "done" =>
            passes[p].html = Substituted(passes[p].source, passes[p])

\* both ids found, the first of them used twice
C8_Witness ==
    \E p \in Passes :
        /\ passes[p].pc = "done"
        /\ Found(passes[p]) = {1, 2}
        /\ Occurrences(passes[p].source, passes[p].imageIds[1]) = 2
        /\ Len(passes[p].html) > Len(passes[p].source)

\* C9: a lookup hit by a storage fault does not end its pass: the loop moves
\* on to the next id, and the completed pass has looked up every id, has
\* published once, and still holds the placeholder of the failed lookup.
C9_FaultTolerated ==
    \A p \in Passes :
        \A k \in 1..Len(passes[p].faulted) :
            passes[p].faulted[k] =>
                /\ passes[p].pc # "aborted"
                /\ passes[p].k > k
                /\ passes[p].pc = "done" =>
                    /\ Len(passes[p].seen) = Len(passes[p].imageIds)
                    /\ passes[p].pubs = 1
                    /\ Occurrences(passes[p].html, passes[p].imageIds[k])
                           = Occurrences(passes[p].source, passes[p].imageIds[k])

\* the first lookup failed, the second one was resolved and published
C9_Witness ==
    \E p \in Passes :
        /\ passes[p].pc = "done"
        /\ passes[p].faulted = <<TRUE, FALSE>>
        /\ Found(passes[p]) = {2}
        /\ passes[p].pubs = 1
        /\ resolvedHtml = passes[p].html
        /\ resolvedHtml # passes[p].source

(***************************************************************************)
(* Claims about the application.                                           *)
(***************************************************************************)
\* C13: an entry of the store disappears only in the delete transaction of
\* an explicit deleteImage or in a delete of cleanupUnusedImages: no edit,
\* New, import, export, preview lookup or image insertion removes one.
C13_NoImplicitReclaim ==
    [][(\E r \in db : StoreGet(db', r.id) = {})
          => \E c \in Callers : DeleteTxn(c) \/ GcDelete(c)]_vars

\* after an edit and the renders of the session, with every pass complete:
\* the document references one stored entry, and another entry that no
\* document of the session has referenced is still stored
C13_Witness ==
    /\ nops = MaxOps
    /\ Len(passes) = MaxPasses
    /\ \A p \in 1..Len(passes) : passes[p].pc = "done"
    /\ appMarkdown # DefaultMarkdown
    /\ \E r \in db : Includes(appMarkdown, r.id)
    /\ \E r \in db :
          /\ ~Includes(appMarkdown, r.id)
          /\ \A p \in 1..Len(passes) : ~Includes(passes[p].source, r.id)

(***************************************************************************)
(* Claims about the compiler.                                              *)
(***************************************************************************)
SectionOpen == <<"<", "s", "e", "c", "t", "i", "o", "n", ">">>

\* the number of slide sections of a compiler output
Sections(html) == Occurrences(html, SectionOpen)

\* C14: markdownToSlides gives at least one slide section for every
\* document, the empty one included, and exactly one for a document in which
\* the delimiter of the split does not occur.
C14_SplitTotal ==
    stage = "compiled" =>
        /\ Sections(slidesHtml) >= 1
        /\ ~Includes(appMarkdown, SlideBreak) => Sections(slidesHtml) = 1

\* the empty document compiled to its one section
C14_Witness ==
    /\ stage = "compiled"
    /\ appMarkdown = <<>>
    /\ Sections(slidesHtml) = 1

\* a line of '---' with a blank line before it and a blank line after it
FlankedRule == <<"\n", "\n", "-", "-", "-", "\n", "\n">>

\* C15: the document is split only at '---' lines that have a blank line on
\* both sides, so there is at most one section more than there are such
\* lines (as claimed; the splitter does not look at the neighbouring lines).
C15_SplitOnlyAtFlankedRule ==
    stage = "compiled" =>
        Sections(slidesHtml) <= 1 + Cardinality(Starts(appMarkdown, FlankedRule))

\* C16: the body of a fenced code block is not interpreted: the block whose
\* body looks like a heading comes out as a code element holding that very
\* text (as claimed; the heading pass runs before the code block pass).
C16_CodeBodyVerbatim ==
    (stage = "compiled" /\ Includes(appMarkdown, FencedBlock(HeadingLikeBody)))
        => Includes(slidesHtml, CodeBlock(<<>>, HeadingLikeBody))

\* the tag that opens at index p of html, up to its ">"
TagAt(html, p) ==
    SubSeq(html, p, Min({k \in p..(Len(html) + 1) : k > Len(html) \/ html[k] = ">"}))

\* C17: an image in Markdown syntax compiles to <img class="fragment" ...>,
\* and every image element of the output carries the fragment marking
\* exactly once (as claimed; the link pass runs before the image pass and
\* consumes the reference).
C17_ImagesAreFragments ==
    stage = "compiled" =>
        /\ Includes(appMarkdown, MarkdownImage(<<"a">>, <<"u">>))
              => Includes(slidesHtml, MdImage(<<"a">>, <<"u">>))
        /\ \A p \in Starts(slidesHtml, ImgOpen) :
              Occurrences(TagAt(slidesHtml, p), FragmentWord) = 1

\* how the elements open that the fragment policy leaves unmarked: headings,
\* paragraphs, code blocks and links
PlainTags == {<<"<", "h", "1">>, <<"<", "h", "2">>, <<"<", "h", "3">>, <<"<", "p">>, <<"<", "p", "r", "e">>, <<"<", "c", "o", "d", "e">>, <<"<", "a">>}

\* C18: in the compiler output every list item, nested ones included, and
\* every diagram container carries the fragment class, and no heading,
\* paragraph, code block or link does.
C18_FragmentPolicy ==
    stage = "compiled" =>
        /\ \A p \in Starts(slidesHtml, <<"<", "l", "i">>) : MatchAt(slidesHtml, p, LiOpen)
        /\ \A p \in Starts(slidesHtml, <<"<", "d", "i", "v">>) :
              Includes(TagAt(slidesHtml, p), <<"c", "l", "a", "s", "s", "=", "\"", "m", "e", "r", "m", "a", "i", "d", " ", "f", "r", "a", "g", "m", "e", "n", "t", "\"">>)
        /\ Cardinality(Starts(slidesHtml, <<"<", "d", "i", "v">>))
              = Cardinality(Starts(appMarkdown, MermaidOpen))
        /\ \A t \in PlainTags :
              \A p \in Starts(slidesHtml, t) :
                  ~Includes(TagAt(slidesHtml, p), FragmentWord)

\* a list with a nested item and a diagram compiled: two marked items, one
\* marked diagram container, and a paragraph without the marking
C18_Witness ==
    /\ stage = "compiled"
    /\ Cardinality(Starts(slidesHtml, LiOpen)) = 2
    /\ Cardinality(Starts(slidesHtml, <<"<", "d", "i", "v", " ", "c", "l", "a", "s", "s", "=", "\"", "m", "e", "r", "m", "a", "i", "d", " ", "f", "r", "a", "g", "m", "e", "n", "t", "\"", ">">>)) = 1
    /\ Starts(slidesHtml, <<"<", "p", ">">>) # {}

(***************************************************************************)
(* Claims about the list pass.                                             *)
(***************************************************************************)
\* the indentations of the lines of the list block in the editor
Indents ==
    Bind(LinesOf(appMarkdown), LAMBDA lines :
        [k \in 1..Len(lines) |-> ListIndent(lines[k])])

\* depths that start at 0 and never increase by more than one
WellFormed(ind) ==
    /\ ind[1] = 0
    /\ \A k \in 1..Len(ind) : ind[k] % 2 = 0
    /\ \A k \in 1..(Len(ind) - 1) : ind[k + 1] <= ind[k] + 2

\* the line a line hangs under: the nearest earlier line that is indented
\* less, 0 when there is none
Parent(ind, k) ==
    Bind({j \in 1..(k - 1) : ind[j] < ind[k]}, LAMBDA above :
        IF above = {} THEN 0 ELSE CHOOSE j \in above : \A i \in above : i <= j)

Children(ind, j) == {k \in 1..Len(ind) : Parent(ind, k) = j}

\* the list of the lines in kids, each with the list of its own children
RECURSIVE Tree(_, _)
Tree(ind, kids) ==
    <<"<", "u", "l", ">", "\n">>
    \o Concat([n \in 1..Cardinality(kids) |->
          Bind(CHOOSE k \in kids : Cardinality({i \in kids : i < k}) = n - 1, LAMBDA k :
              LiOpen \o <<ItemTexts[k]>>
              \o (IF Children(ind, k) = {} THEN <<>>
                  ELSE <<NewLine>> \o Tree(ind, Children(ind, k)))
              \o LiClose)])
    \o <<"<", "/", "u", "l", ">">>

\* C19: for a list block whose depths start at 0 and never increase by more
\* than one, the list pass gives one list in which every line is an item of
\* the list of the nearest earlier line of lesser depth (of the outer list
\* when there is none); '- A', '  - B', '  - C', '- D' gives A and D at the
\* top and B, C nested under A.
C19_NestedLists ==
    stage = "listed" =>
        /\ WellFormed(Indents) => listHtml = Tree(Indents, Children(Indents, 0))
        /\ appMarkdown = <<"-", " ", "A", "\n", " ", " ", "-", " ", "B", "\n", " ", " ", "-", " ", "C", "\n", "-", " ", "D">>
              => listHtml = <<"<", "u", "l", ">", "\n", "<", "l", "i", " ", "c", "l", "a", "s", "s", "=", "\"", "f", "r", "a", "g", "m", "e", "n", "t", "\"", ">", "A", "\n", "<", "u", "l", ">", "\n", "<", "l", "i", " ", "c", "l", "a", "s", "s", "=", "\"", "f", "r", "a", "g", "m", "e", "n", "t", "\"", ">", "B", "<", "/", "l", "i", ">", "\n", "<", "l", "i", " ", "c", "l", "a", "s", "s", "=", "\"", "f", "r", "a", "g", "m", "e", "n", "t", "\"", ">", "C", "<", "/", "l", "i", ">", "\n", "<", "/", "u", "l", ">", "<", "/", "l", "i", ">", "\n", "<", "l", "i", " ", "c", "l", "a", "s", "s", "=", "\"", "f", "r", "a", "g", "m", "e", "n", "t", "\"", ">", "D", "<", "/", "l", "i", ">", "\n", "<", "/", "u", "l", ">">>

\* the example of the claim after the list pass
C19_Witness ==
    /\ stage = "listed"
    /\ appMarkdown = <<"-", " ", "A", "\n", " ", " ", "-", " ", "B", "\n", " ", " ", "-", " ", "C", "\n", "-", " ", "D">>
    /\ WellFormed(Indents)
    /\ Occurrences(listHtml, <<"<", "u", "l", ">">>) = 2

\* whether line k of a list block becomes a list entry: a line of depth 0
\* does; a line of depth e > 0 does when an earlier line of depth e - 1 does
\* and every line after that one, up to line k, is indented further than it
RECURSIVE Emitted(_, _)
Emitted(ind, k) ==
    /\ ind[k] % 2 = 0
    /\ \/ ind[k] = 0
       \/ \E j \in 1..(k - 1) :
             /\ ind[j] = ind[k] - 2
             /\ \A i \in (j + 1)..k : ind[i] > ind[j]
             /\ Emitted(ind, j)

\* C20: the list pass ends with a list for every list block, however its
\* lines are indented, and a line that is neither at the depth being parsed
\* nor in the run of deeper lines after an item of that depth gives no list
\* entry; every other line gives one.
C20_SkipsStrayLines ==
    stage = "listed" =>
        /\ MatchAt(listHtml, 1, <<"<", "u", "l", ">", "\n">>)
        /\ \A k \in 1..Len(Indents) :
              Includes(listHtml, LiOpen \o <<ItemTexts[k]>>) <=> Emitted(Indents, k)

\* a jump from depth 0 to depth 2 with no parent in between: the first line
\* is an entry, the second is skipped
C20_Witness ==
    /\ stage = "listed"
    /\ Indents = <<0, 4>>
    /\ Includes(listHtml, LiOpen \o <<ItemTexts[1]>>)
    /\ ~Includes(listHtml, <<ItemTexts[2]>>)

(***************************************************************************)
(* Claims about the paragraph pass.                                        *)
(***************************************************************************)
\* how the lines begin that the block passes have written: headings, list
\* markup with its closing tags, code blocks, diagram containers, image tags
ConvertedStarts ==
    {<<"<", "h", "1">>, <<"<", "h", "2">>, <<"<", "h", "3">>, <<"<", "u", "l", ">">>, <<"<", "/", "u", "l", ">">>, <<"<", "l", "i">>, <<"<", "/", "l", "i", ">">>,
     <<"<", "p", "r", "e", ">">>, <<"<", "d", "i", "v">>, <<"<", "i", "m", "g">>}

\* C21: the paragraph pass wraps bare text only: no paragraph of the output
\* opens on the markup of a converted block (as claimed; the pass skips a
\* line only when it starts with '<' and one of the letters h, u, p, o, l, i,
\* which closing tags and the diagram container do not).
C21_ParagraphsWrapBareText ==
    stage = "compiled" =>
        \A t \in ConvertedStarts : ~Includes(slidesHtml, <<"<", "p", ">">> \o t)

(***************************************************************************)
(* Claims about the export.                                                *)
(***************************************************************************)
\* the placeholders of a text
Placeholders(text) ==
    {SubSeq(text, j, j + PlaceholderLen - 1) :
        j \in {i \in 1..Len(text) : PlaceholderAt(text, i)}}

\* C22: when the asset of every placeholder of the document is in the store,
\* the exported text holds no placeholder (as claimed; the export replaces
\* the references of the forms ![alt](id) and src="id" only, and a
\* replacement pattern in an alt text brings the reference back).
C22_ExportReplacesAll ==
    (/\ export.pc = "done"
     /\ \A id \in Placeholders(appMarkdown) : StoreGet(db, id) # {})
        => Placeholders(export.result) = {}

\* the Resolver applied to html over a store that does not change and does
\* not fail: the pass run to its end
RECURSIVE RunPass(_, _)
RunPass(pass, store) ==
    IF pass.pc = "done" THEN pass.html
    ELSE Bind(GetImageTxn(store, pass.imageIds[pass.k], TRUE), LAMBDA got :
         RunPass(Settle(pass,
                        IF got.pc = "read" THEN GetImageRead(got.image, TRUE)
                        ELSE got.result,
                        TRUE, 1),
                 store))

ResolvedInline(html, store) == RunPass(StartPass(html), store)

\* the name of the element a tag opens
TagName(tag) == SubSeq(tag, 2, WordEnd(tag, 2) - 1)

\* the fragment markings of html: the names of the elements whose opening tag
\* carries the fragment class, from left to right
RECURSIVE MarksFrom(_, _)
MarksFrom(html, i) ==
    Bind({p \in i..Len(html) : html[p] = "<"}, LAMBDA at :
        IF at = {} THEN <<>>
        ELSE Bind(TagAt(html, Min(at)), LAMBDA tag :
             (IF Includes(tag, ClassAttr) /\ Includes(tag, FragmentWord)
              THEN <<TagName(tag)>> ELSE <<>>)
             \o MarksFrom(html, Min(at) + 1)))

FragmentMarks(html) == MarksFrom(html, 1)

\* C23: compiling the exported document gives as many slides and the same
\* fragment markings as compiling the document and resolving its
\* placeholders (as claimed; a replacement pattern in an alt text makes the
\* export copy text of the document, slide delimiters included).
C23_ExportRoundTrip ==
    export.pc = "done" =>
        \E exported \in {markdownToSlides(export.result)} :
        \E resolved \in {ResolvedInline(markdownToSlides(appMarkdown), db)} :
            /\ Sections(exported) = Sections(resolved)
            /\ FragmentMarks(exported) = FragmentMarks(resolved)

(***************************************************************************)
(* Claims about the image import.                                          *)
(***************************************************************************)
\* no store operation is in flight and no stored image waits to be inserted
Quiescent == \A c \in Callers : ~InFlight(c) /\ ~InsertPending(c)

\* C24: once every import and every cleanup has completed, each placeholder
\* of the document has its asset in the store (as claimed; a cleanup that was
\* given the document before the insertion deletes the asset after it).
C24_NoDanglingReference ==
    Quiescent => \A id \in Placeholders(appMarkdown) : StoreGet(db, id) # {}

\* the ids storeImage has returned
ReturnedIds ==
    {proc[c].result.value :
        c \in {d \in Callers : /\ proc[d].op = "storeImage"
                               /\ proc[d].pc = "done"
                               /\ proc[d].result.state = "fulfilled"}}

\* C25: every id returned by storeImage is 'img-' followed by exactly 16
\* lowercase hexadecimal characters, so the pattern of the resolver and the
\* two patterns of the export each match it in full.
C25_IdShape ==
    \A id \in ReturnedIds :
        /\ Len(id) = Len(IdPrefix) + IdHexLen
        /\ MatchAt(id, 1, IdPrefix)
        /\ \A k \in (Len(IdPrefix) + 1)..Len(id) : IsHexChar(id[k])
        /\ MatchAllFrom(ImgTag(id), 1) = <<id>>
        /\ \E ms \in {MatchesFrom("src", ImgTag(id), 1)} :
              Len(ms) = 1 /\ ms[1].id = id
        /\ \E ms \in {MatchesFrom("md", MarkdownImage(<<"a">>, id), 1)} :
              Len(ms) = 1 /\ ms[1].id = id

\* storeImage has returned the ids of two contents
C25_Witness == Cardinality(ReturnedIds) = 2

\* C26: the document changes only by the insertion of the id that a
\* storeImage call has resolved with, whose asset is in the store at that
\* moment; a storeImage that fails leaves the document as it is.
C26_InsertAfterPut ==
    [][appMarkdown' # appMarkdown =>
        \E c \in Callers :
            /\ InsertPending(c)
            /\ StoreGet(db, proc[c].result.value) # {}
            /\ \E pos \in Cursors(appMarkdown) :
                  appMarkdown' = WithImage(appMarkdown, pos, proc[c].result.value)]_vars

\* one import has failed and left nothing in the document, another has
\* inserted its image
C26_Witness ==
    /\ \E c \in Callers : /\ proc[c].op = "storeImage"
                          /\ proc[c].pc = "done"
                          /\ proc[c].result.state = "rejected"
    /\ Cardinality(Placeholders(appMarkdown)) = 1

(***************************************************************************)
(* Claims about the diagram dialog.                                        *)
(***************************************************************************)
\* C27: a step of a render that is no longer the one started last changes
\* neither the preview nor the error state.
C27_SupersededRenderIsDropped ==
    [][\A r \in 1..Len(renders) :
          (renders'[r].pc # renders[r].pc /\ renders[r].id # renderIdRef)
              => (previewInner' = previewInner /\ diagramError' = diagramError)]_vars

\* a render that had called mermaid.render was overtaken and its outcome
\* dropped; the preview shows the svg of the render started last
C27_Witness ==
    /\ \E r \in 1..Len(renders) :
          /\ renders[r].pc = "done"
          /\ renders[r].rendered
          /\ ~renders[r].applied
          /\ ~ParsesAsDiagram(renders[r].code)
    /\ previewInner = Svg(renderIdRef, diagramCode)
    /\ diagramError = Null

(***************************************************************************)
(* ThemeSettings: the panel that edits the theme, next to App.handleNew.   *)
(***************************************************************************)
\* the fields of a ThemeConfig
ThemeKeys == {"theme", "primaryColor", "secondaryColor", "tertiaryColor"}

\* what the <select> and the colour inputs can hand to handleChange: a theme
\* of the list, or a colour (the default one of the field, or black)
ThemeValues(key) ==
    IF key = "theme" THEN ThemeIds
    ELSE {DEFAULT_THEME_CONFIG[key], "#000000"}

\* the Theme button of the toolbar
OpenThemeSettings ==
    /\ ~isThemeSettingsOpen
    /\ isThemeSettingsOpen' = TRUE
    /\ UNCHANGED <<storeVars, previewVars, docVars, export, diagramVars,
                   themeConfig, localConfig, starts>>

\* onClose: the close button, or a click on the overlay
CloseThemeSettings ==
    /\ isThemeSettingsOpen
    /\ isThemeSettingsOpen' = FALSE
    /\ UNCHANGED <<storeVars, previewVars, docVars, export, diagramVars,
                   themeConfig, localConfig, starts>>

\* handleChange(key, value), called by the change event of a control of the
\* open panel: newConfig is built from localConfig, and goes to both states
handleChange(key, value) ==
    /\ isThemeSettingsOpen
    /\ value # localConfig[key]
    /\ \E newConfig \in {[localConfig EXCEPT ![key] = value]} :
          /\ localConfig' = newConfig
          /\ themeConfig' = newConfig
    /\ UNCHANGED <<storeVars, previewVars, docVars, export, diagramVars,
                   isThemeSettingsOpen, starts>>

\* the "Reset to Defaults" button of the open panel
ResetToDefaults ==
    /\ isThemeSettingsOpen
    /\ localConfig' = DEFAULT_THEME_CONFIG
    /\ themeConfig' = DEFAULT_THEME_CONFIG
    /\ UNCHANGED <<storeVars, previewVars, docVars, export, diagramVars,
                   isThemeSettingsOpen, starts>>

\* the application starts with the default document and the default theme,
\* and nothing in the store; ThemeSettings is mounted with
\* useState(config), the panel closed
InitTheme ==
    /\ db = {}
    /\ proc = [c \in Callers |-> Idle]
    /\ nops = 0
    /\ nfaults = 0
    /\ live = {}
    /\ lastGC = [md |-> <<>>, valid |-> FALSE, removed |-> 0]
    /\ Mounted(DefaultMarkdown)

\* the toolbar is under the overlay of the open panel, so New is clicked
\* while the panel is closed
NextTheme ==
    \/ OpenThemeSettings
    \/ CloseThemeSettings
    \/ \E key \in ThemeKeys : \E value \in ThemeValues(key) :
          handleChange(key, value)
    \/ ResetToDefaults
    \/ ~isThemeSettingsOpen /\ handleNew

\* the theme panel and the New button
SpecTheme == InitTheme /\ [][NextTheme]_vars

(***************************************************************************)
(* Claims about the theme panel.                                           *)
(***************************************************************************)
\* C28: whenever the theme panel is open, after any sequence of edits,
\* Reset and New, the panel's local config equals App's theme config (so
\* that an edit of one field changes no other field of App's config)
C28_PanelMatchesApp == isThemeSettingsOpen => localConfig = themeConfig

(***************************************************************************)
(* App: the page is loaded again.                                          *)
(***************************************************************************)
\* a reload of the page with nothing in flight: every state is initialised
\* anew, the document by LoadMarkdown; RevealPreview and ThemeSettings are
\* mounted again, and the effect that persists the document writes the
\* loaded text. The theme item holds JSON.stringify(themeConfig), a record
\* of four plain strings, which loadJsonFromStorage parses back
Restart ==
    /\ starts < MaxStarts
    /\ \A c \in Callers : proc[c] = Idle
    /\ export = [pc |-> "idle"]
    /\ starts' = starts + 1
    /\ \E md \in {LoadMarkdown(storedMarkdown)} :
          \E html \in {UseMemo(md)} :
             /\ appMarkdown' = md
             /\ storedMarkdown' = md
             /\ slidesHtml' = html
             /\ resolvedHtml' = html
             /\ passes' = <<[StartedPass[html] EXCEPT !.order = 1]>>
    /\ localConfig' = themeConfig
    /\ isThemeSettingsOpen' = FALSE
    /\ diagramCode' = <<>>
    /\ renderIdRef' = 0
    /\ previewInner' = <<>>
    /\ diagramError' = Null
    /\ renders' = <<>>
    /\ UNCHANGED <<storeVars, listHtml, stage, export, themeConfig>>

\* the first visit: nothing is stored, the document is DEFAULT_MARKDOWN, and
\* the effect has stored it
InitSettings == InitTheme

NextSettings ==
    \/ \E md \in SettingsDocs : EditorChange(md)
    \/ handleNew
    \/ Restart

\* the editor, the New button and reloads of the page
SpecSettings == InitSettings /\ [][NextSettings]_vars

(***************************************************************************)
(* Claims about the persisted document.                                    *)
(***************************************************************************)
\* C29: when the page is loaded again with a non-empty document text in the
\* settings store, the initial document is that text, unchanged
C29_DocumentRoundTrip ==
    [][(starts' # starts /\ storedMarkdown # <<>>)
          => appMarkdown' = storedMarkdown]_vars
====
